---- MODULE Spec2Model ----
(***************************************************************************)
(* Model of the containment-graph resolution and complexity-aggregation    *)
(* engine of app/services/report_service.py.                               *)
(*                                                                         *)
(* The state is the snapshot of one assessment (its ordered object rows    *)
(* and relationship rows) and the report last generated from it.           *)
(* Relationship rows are appended one at a time; report generation is one  *)
(* step that computes every modelled section from the current snapshot.    *)
(***************************************************************************)
EXTENDS Integers, Sequences, FiniteSets, TLC

VARIABLES
    objects,        \* assessment.objects: the ordered object rows
    candidates,     \* relationship rows the ingestion may still persist
    relationships,  \* assessment.relationships: the ordered rows persisted
    report,         \* the report generated from the current snapshot
    root_cache,     \* ContainmentTree._root_cache after the generation
    resolved,       \* what _resolve_containment_root returned per object
    calculated_field,   \* the properties of one calculated field
    cf_complexity,      \* what complexity_fn returned for it
    engine,         \* the ReportService instance: its two table caches
    bigquery,       \* the reference-table service as the engine finds it
    runs,           \* the reports this instance generated, by input
    hier_objects,        \* the object dicts given to build_hierarchy
    hier_relationships,  \* the relationship dicts given to build_hierarchy
    hierarchy,      \* the HierarchyService after build_hierarchy
    walk            \* one traversal of the relationship data, loop by loop

\* The state of report generation on an assessment's snapshot.
reportVars ==
    <<objects, candidates, relationships, report, root_cache, resolved>>

\* The state of the classification of one calculated field.
calcVars == <<calculated_field, cf_complexity>>

\* The engine instance and the reference-table service.
engineVars == <<engine, bigquery, runs>>

\* The input and the state of the hierarchy service.
hierVars == <<hier_objects, hier_relationships, hierarchy>>

\* The traversal in progress.
walkVars == <<walk>>

vars == <<reportVars, calcVars, engineVars, hierVars, walkVars>>

(***************************************************************************)
(* Bounds                                                                  *)
(***************************************************************************)
\* Largest number of relationship rows of an assessment.
MaxRels == 3

(***************************************************************************)
(* Values                                                                  *)
(***************************************************************************)
\* Python None for identifiers, names, kinds and property values.
None == "None"

\* Python None for a root key (a root key is an id or ("file", file_id)).
NoKey == <<>>

\* No calculated field is being classified.
CalcIdle ==
    /\ calculated_field = <<>>
    /\ cf_complexity = None

\* No engine instance exists and no reference-table service is consulted.
EngineIdle ==
    /\ engine = <<>>
    /\ bigquery = None
    /\ runs = <<>>

\* The hierarchy service is not in use.
HierIdle ==
    /\ hier_objects = <<>>
    /\ hier_relationships = <<>>
    /\ hierarchy = <<>>

\* No traversal is followed loop by loop.
WalkIdle == walk = <<>>

\* report_service.py:65
COMPLEXITY_LEVELS == <<"low", "medium", "high", "critical">>

\* report_service.py:59
CONTAINMENT_REL_TYPES == {"contains", "parent_child"}

\* report_service.py:61
USAGE_REL_TYPES == {"uses", "references", "connects_to"}

\* report_service.py:63
HAS_COLUMN_REL_TYPE == "has_column"

\* report_service.py:64
ROOT_OBJECT_TYPES == {"dashboard", "report"}

Range(s) == {s[i] : i \in DOMAIN s}

(***************************************************************************)
(* str.strip() and str.lower() on the strings that occur in the model.     *)
(***************************************************************************)
Strip(s) ==
    CASE s = "sales "  -> "sales"
      [] s = " S1"     -> "S1"
      [] s = "  "      -> ""
      [] s = " Medium" -> "Medium"
      [] s = " Medium " -> "Medium"
      [] s = " medium" -> "medium"
      [] s = " Map"    -> "Map"
      [] s = "Visualization " -> "Visualization"
      [] OTHER         -> s

Lower(s) ==
    CASE s = "Sales"     -> "sales"
      [] s = "Ops"       -> "ops"
      [] s = "S1"        -> "s1"
      [] s = "S2"        -> "s2"
      [] s = "CONTAINS"  -> "contains"
      [] s = "USES"      -> "uses"
      [] s = "DASHBOARD" -> "dashboard"
      [] s = "Folder"    -> "folder"
      [] s = "Low"       -> "low"
      [] s = "Medium"    -> "medium"
      [] s = "High"      -> "high"
      [] s = "Critical"  -> "critical"
      [] s = "Unknown"   -> "unknown"
      [] s = "Pie"       -> "pie"
      [] s = "Bar"       -> "bar"
      [] s = "Map"       -> "map"
      [] s = "Gauge"     -> "gauge"
      [] s = "List"      -> "list"
      [] s = "KPI"       -> "kpi"
      [] s = "Fin"       -> "fin"
      [] s = "Report"    -> "report"
      [] s = "Dashboard" -> "dashboard"
      [] s = "Visualization"     -> "visualization"
      [] s = "Calculated Field"  -> "calculated field"
      [] s = "interactiveReport" -> "interactivereport"
      [] s = "reportView"        -> "reportview"
      [] OTHER           -> s

\* _normalize_rel_type: None -> "", else strip().lower().
_normalize_rel_type(rel_type) ==
    IF rel_type = None THEN "" ELSE Lower(Strip(rel_type))

\* _normalize_object_type: None -> "", else strip().lower().
_normalize_object_type(ot) ==
    IF ot = None THEN "" ELSE Lower(Strip(ot))

\* _is_connection_object_type: the type with "_" removed is datasource or
\* datasourceconnection.
_is_connection_object_type(ot) ==
    ot \in {"data_source", "datasource", "data_source_connection",
            "datasourceconnection"}

(***************************************************************************)
(* Object rows (ExtractedObject) and relationship rows                     *)
(* (ObjectRelationship).  properties holds the keys the engine reads.      *)
(***************************************************************************)
Obj(id, object_type, file_id, name) ==
    [id |-> id, object_type |-> object_type, file_id |-> file_id,
     name |-> name, storeID |-> None, is_complex |-> FALSE]

Rel(src, tgt, rt) ==
    [source_object_id |-> src, target_object_id |-> tgt,
     relationship_type |-> rt]

\* id_to_obj = {obj.id: obj for obj in objects}: its key set and lookup.
IdsOf(objs) == {objs[i].id : i \in DOMAIN objs}

id_to_obj(objs, oid) == CHOOSE o \in Range(objs) : o.id = oid

(***************************************************************************)
(* Containment tree                                                        *)
(***************************************************************************)
\* build_containment_tree: contains_parent[tgt] = src (a later row
\* overwrites an earlier one), contains_children[src].append(tgt).
RECURSIVE BuildTreeFrom(_, _, _, _)
BuildTreeFrom(objs, rels, i, tree) ==
    IF i > Len(rels) THEN tree
    ELSE LET rt  == _normalize_rel_type(rels[i].relationship_type)
             src == rels[i].source_object_id
             tgt == rels[i].target_object_id
         IN  IF rt \notin CONTAINMENT_REL_TYPES
                 \/ src \notin IdsOf(objs) \/ tgt \notin IdsOf(objs)
             THEN BuildTreeFrom(objs, rels, i + 1, tree)
             ELSE BuildTreeFrom(objs, rels, i + 1,
                    [contains_parent |->
                        [tree.contains_parent EXCEPT ![tgt] = src],
                     contains_children |->
                        [tree.contains_children EXCEPT
                            ![src] = Append(@, tgt)]])

\* Variant of ContainmentTree.__init__ that keeps the root cache of the
\* previous generation instead of starting from an empty one.
ContainmentTree_KeepCache(contains_parent, contains_children) ==
    [contains_parent |-> contains_parent,
     contains_children |-> contains_children,
     _root_cache |-> root_cache]

\* ContainmentTree.__init__: the maps, and an empty _root_cache.
ContainmentTree(contains_parent, contains_children) ==
    [contains_parent |-> contains_parent,
     contains_children |-> contains_children,
     _root_cache |-> <<>>]

build_containment_tree(objs, rels) ==
    LET maps == BuildTreeFrom(objs, rels, 1,
                    [contains_parent   |-> [o \in IdsOf(objs) |-> None],
                     contains_children |-> [o \in IdsOf(objs) |-> <<>>]])
    IN  ContainmentTree(maps.contains_parent, maps.contains_children)

\* dict.get on the tree maps: ids outside the map give None / [].
ParentOf(tree, oid) ==
    IF oid \in DOMAIN tree.contains_parent
    THEN tree.contains_parent[oid] ELSE None

ChildrenOf(tree, oid) ==
    IF oid \in DOMAIN tree.contains_children
    THEN tree.contains_children[oid] ELSE <<>>

\* ContainmentTree.get_root: an id in _root_cache returns the cached pair;
\* otherwise walk contains_parent upward until a dashboard or report is
\* met, a node repeats, or the chain ends.
RECURSIVE GetRootWalk(_, _, _, _)
GetRootWalk(objs, tree, current, visited) ==
    IF current = None \/ current \in visited THEN <<None, None>>
    ELSE LET ot == IF current \in IdsOf(objs)
                   THEN _normalize_object_type(
                            id_to_obj(objs, current).object_type)
                   ELSE ""
         IN  IF ot \in ROOT_OBJECT_TYPES THEN <<current, ot>>
             ELSE GetRootWalk(objs, tree, ParentOf(tree, current),
                              visited \cup {current})

\* Variant of get_root that keeps walking and returns the topmost
\* dashboard/report of the chain instead of the first.
RECURSIVE TopmostRootWalk(_, _, _, _, _)
TopmostRootWalk(objs, tree, current, visited, best) ==
    IF current = None \/ current \in visited THEN best
    ELSE LET ot == IF current \in IdsOf(objs)
                   THEN _normalize_object_type(
                            id_to_obj(objs, current).object_type)
                   ELSE ""
         IN  TopmostRootWalk(objs, tree, ParentOf(tree, current),
                             visited \cup {current},
                             IF ot \in ROOT_OBJECT_TYPES
                             THEN <<current, ot>> ELSE best)

get_root_Topmost(objs, tree, object_id) ==
    TopmostRootWalk(objs, tree, object_id, {}, <<None, None>>)

get_root(objs, tree, object_id) ==
    IF object_id \in DOMAIN tree._root_cache
    THEN tree._root_cache[object_id]
    ELSE GetRootWalk(objs, tree, object_id, {})

(***************************************************************************)
(* Root resolution                                                         *)
(***************************************************************************)
\* Variant of _file_to_container_type that ignores which file an object
\* belongs to: one container kind for the whole assessment.
_file_to_container_type_AnyFile(objs, fid) ==
    LET types == {_normalize_object_type(objs[i].object_type) :
                    i \in DOMAIN objs}
    IN  IF "dashboard" \in types THEN "dashboard"
        ELSE IF "report" \in types THEN "report"
        ELSE None

\* _file_to_container_type: file_id -> "dashboard" | "report" | None.
_file_to_container_type(objs, fid) ==
    LET types == {_normalize_object_type(objs[i].object_type) :
                    i \in {j \in DOMAIN objs : objs[j].file_id = fid}}
    IN  IF "dashboard" \in types THEN "dashboard"
        ELSE IF "report" \in types THEN "report"
        ELSE None

\* Variant of relationships_by_target with the direction confused: the
\* targets of every row whose source is the node.
relationships_by_target_Forward(rels, tgt) ==
    LET idx == SelectSeq([i \in DOMAIN rels |-> i],
                         LAMBDA i : rels[i].source_object_id = tgt)
    IN  [k \in DOMAIN idx |-> rels[idx[k]].target_object_id]

\* relationships_by_target[tgt]: the sources of every row that targets tgt,
\* in row order, whatever the row's type or endpoints.
relationships_by_target(rels, tgt) ==
    LET idx == SelectSeq([i \in DOMAIN rels |-> i],
                         LAMBDA i : rels[i].target_object_id = tgt)
    IN  [k \in DOMAIN idx |-> rels[idx[k]].source_object_id]

\* for src_id in ...: if src_id not in seen: seen.add; queue.append
RECURSIVE EnqueueUnseen(_, _, _)
EnqueueUnseen(srcs, queue, seen) ==
    IF srcs = <<>> THEN [queue |-> queue, seen |-> seen]
    ELSE IF Head(srcs) \in seen
         THEN EnqueueUnseen(Tail(srcs), queue, seen)
         ELSE EnqueueUnseen(Tail(srcs), Append(queue, Head(srcs)),
                            seen \cup {Head(srcs)})

\* The while-queue loop of _resolve_containment_root.
RECURSIVE ResolveBfs(_, _, _, _, _)
ResolveBfs(objs, tree, rels, queue, seen) ==
    IF queue = <<>> THEN <<None, None>>
    ELSE LET node == Head(queue)
             r    == get_root(objs, tree, node)
         IN  IF r[2] \in ROOT_OBJECT_TYPES /\ r[1] # None THEN r
             ELSE LET nxt == EnqueueUnseen(
                                relationships_by_target(rels, node),
                                Tail(queue), seen)
                  IN  ResolveBfs(objs, tree, rels, nxt.queue, nxt.seen)

\* Variant of _resolve_containment_root that consults the file container
\* before the breadth-first search.
_resolve_containment_root_FileFirst(objs, tree, rels, obj) ==
    LET r == get_root(objs, tree, obj.id)
    IN  IF r[2] = "dashboard" /\ r[1] # None
        THEN <<1, 0, <<"id", r[1]>>, NoKey>>
        ELSE IF r[2] = "report" /\ r[1] # None
        THEN <<0, 1, NoKey, <<"id", r[1]>>>>
        ELSE LET first == EnqueueUnseen(
                              relationships_by_target(rels, obj.id),
                              <<>>, {obj.id})
                 b == ResolveBfs(objs, tree, rels, first.queue, first.seen)
                 container == _file_to_container_type(objs, obj.file_id)
             IN  IF container = "dashboard"
                 THEN <<1, 0, <<"file", obj.file_id>>, NoKey>>
                 ELSE IF container = "report"
                 THEN <<0, 1, NoKey, <<"file", obj.file_id>>>>
                 ELSE IF b[2] = "dashboard"
                 THEN <<1, 0, <<"id", b[1]>>, NoKey>>
                 ELSE IF b[2] = "report"
                 THEN <<0, 1, NoKey, <<"id", b[1]>>>>
                 ELSE <<0, 0, NoKey, NoKey>>

\* _resolve_containment_root: (dashboards_containing_count,
\* reports_containing_count, dash_root_key, report_root_key).
\* The str(id) alias of relationships_by_target is the same list as the id
\* key (ids are UUIDs), so the second key of each loop adds nothing.
_resolve_containment_root(objs, tree, rels, obj) ==
    LET r == get_root(objs, tree, obj.id)
    IN  IF r[2] = "dashboard" /\ r[1] # None
        THEN <<1, 0, <<"id", r[1]>>, NoKey>>
        ELSE IF r[2] = "report" /\ r[1] # None
        THEN <<0, 1, NoKey, <<"id", r[1]>>>>
        ELSE LET first == EnqueueUnseen(
                              relationships_by_target(rels, obj.id),
                              <<>>, {obj.id})
                 b == ResolveBfs(objs, tree, rels, first.queue, first.seen)
                 container == _file_to_container_type(objs, obj.file_id)
             IN  IF b[2] = "dashboard" THEN <<1, 0, <<"id", b[1]>>, NoKey>>
                 ELSE IF b[2] = "report"
                 THEN <<0, 1, NoKey, <<"id", b[1]>>>>
                 ELSE IF container = "dashboard"
                 THEN <<1, 0, <<"file", obj.file_id>>, NoKey>>
                 ELSE IF container = "report"
                 THEN <<0, 1, NoKey, <<"file", obj.file_id>>>>
                 ELSE <<0, 0, NoKey, NoKey>>

(***************************************************************************)
(* Calculated-field complexity.  A text (Python str) whose characters the  *)
(* code inspects is the sequence of its characters.                        *)
(***************************************************************************)
\* Python None as the value of a text property.
NoneText == <<None>>

\* str.lower(), character by character.
LowerChar(c) ==
    CASE c = "A" -> "a"
      [] c = "B" -> "b"
      [] c = "C" -> "c"
      [] c = "D" -> "d"
      [] c = "E" -> "e"
      [] c = "F" -> "f"
      [] c = "G" -> "g"
      [] c = "H" -> "h"
      [] c = "I" -> "i"
      [] c = "J" -> "j"
      [] c = "K" -> "k"
      [] c = "L" -> "l"
      [] c = "M" -> "m"
      [] c = "N" -> "n"
      [] c = "O" -> "o"
      [] c = "P" -> "p"
      [] c = "Q" -> "q"
      [] c = "R" -> "r"
      [] c = "S" -> "s"
      [] c = "T" -> "t"
      [] c = "U" -> "u"
      [] c = "V" -> "v"
      [] c = "W" -> "w"
      [] c = "X" -> "x"
      [] c = "Y" -> "y"
      [] c = "Z" -> "z"
      [] OTHER -> c

LowerText(s) == [i \in DOMAIN s |-> LowerChar(s[i])]

\* str.strip(): leading and trailing blanks removed.
RECURSIVE StripText(_)
StripText(s) ==
    IF s = <<>> THEN s
    ELSE IF Head(s) = " " THEN StripText(Tail(s))
    ELSE IF s[Len(s)] = " " THEN StripText(SubSeq(s, 1, Len(s) - 1))
    ELSE s

\* term in text: the first position at which term starts, if any.
RECURSIVE FindFrom(_, _, _)
FindFrom(term, text, i) ==
    IF i + Len(term) - 1 > Len(text) THEN FALSE
    ELSE IF SubSeq(text, i, i + Len(term) - 1) = term THEN TRUE
    ELSE FindFrom(term, text, i + 1)

TextIn(term, text) == FindFrom(term, text, 1)

\* for term in terms: if term in expr_str: return ...
RECURSIVE AnyTermIn(_, _, _)
AnyTermIn(terms, text, k) ==
    IF k > Len(terms) THEN FALSE
    ELSE IF TextIn(terms[k], text) THEN TRUE
    ELSE AnyTermIn(terms, text, k + 1)

\* report_service.py:769-776
critical_terms ==
    <<<<"p", "r", "e", "f", "i", "l", "t", "e", "r">>,
      <<"q", "u", "a", "r", "t", "i", "l", "e">>,
      <<"q", "u", "a", "n", "t", "i", "l", "e">>,
      <<"p", "o", "w", "e", "r">>,
      <<"p", "o", "s", "i", "t", "i", "o", "n", "_", "r", "e", "g", "e", "x">>,
      <<"s", "u", "b", "s", "t", "r", "i", "n", "g", "_", "r", "e", "g", "e", "x">>,
      <<"p", "e", "r", "i", "o", "d">>,
      <<"l", "o", "o", "k", "u", "p">>,
      <<"r", "u", "n", "n", "i", "n", "g", "-", "m", "a", "x", "i", "m", "u", "m">>,
      <<"r", "u", "n", "n", "i", "n", "g", "-", "m", "i", "n", "i", "m", "u", "m">>,
      <<"m", "o", "v", "i", "n", "g", "-", "a", "v", "e", "r", "a", "g", "e">>,
      <<"s", "t", "a", "n", "d", "a", "r", "d", "-", "d", "e", "v", "i", "a", "t", "i", "o", "n">>,
      <<"r", "e", "g", "r", "e", "s", "s", "i", "o", "n", "-", "a", "v", "e", "r", "a", "g", "e">>,
      <<"t", "a", "n", "h", "y", "p">>,
      <<"v", "a", "r", "i", "a", "n", "c", "e">>,
      <<"_", "y", "m", "d", "i", "n", "t", "_", "b", "e", "t", "w", "e", "e", "n">>,
      <<"_", "y", "m", "d", "i", "n", "t", "_", "t", "o", "_", "d", "a", "t", "e">>,
      <<"_", "y", "m", "d", "i", "n", "t", "_", "t", "o", "_", "t", "i", "m", "e">>>>

\* report_service.py:781-787
medium_terms ==
    <<<<"c", "a", "s", "t">>,
      <<"m", "o", "v", "i", "n", "g", "-", "t", "o", "t", "a", "l">>,
      <<"_", "a", "d", "d", "_", "m", "o", "n", "t", "h", "s">>,
      <<"_", "a", "d", "d", "_", "y", "e", "a", "r", "s">>,
      <<"_", "a", "d", "d", "_", "d", "a", "y", "s">>,
      <<"_", "a", "d", "d", "_", "w", "e", "e", "k", "s">>,
      <<"_", "a", "d", "d", "_", "m", "o", "n", "t", "h", "s">>,
      <<"_", "a", "d", "d", "_", "y", "e", "a", "r", "s">>,
      <<"_", "a", "d", "d", "_", "d", "a", "y", "s">>,
      <<"_", "a", "d", "d", "_", "w", "e", "e", "k", "s">>,
      <<"_", "f", "i", "r", "s", "t", "_", "o", "f", "_", "m", "o", "n", "t", "h">>,
      <<"_", "d", "a", "y", "s", "_", "b", "e", "t", "w", "e", "e", "n">>,
      <<"_", "f", "i", "r", "s", "t", "_", "o", "f", "_", "y", "e", "a", "r">>,
      <<"_", "m", "o", "n", "t", "h", "s", "_", "b", "e", "t", "w", "e", "e", "n">>,
      <<"_", "y", "e", "a", "r", "s", "_", "b", "e", "t", "w", "e", "e", "n">>>>

\* report_service.py:765
LowKinds ==
    <<<<"c", "a", "s", "e", "_", "e", "x", "p", "r", "e", "s", "s", "i", "o", "n">>,
      <<"i", "f", "_", "e", "x", "p", "r", "e", "s", "s", "i", "o", "n">>,
      <<"a", "g", "g", "r", "e", "g", "a", "t", "e", "_", "f", "u", "n", "c", "t", "i", "o", "n">>,
      <<"f", "u", "n", "c", "t", "i", "o", "n">>>>

\* The literal "embeddedCalculation" of report_service.py:763.
EmbeddedCalculation == <<"e", "m", "b", "e", "d", "d", "e", "d", "C", "a", "l", "c", "u", "l", "a", "t", "i", "o", "n">>

\* The literal "expression" of report_service.py:2100.
ExpressionKind == <<"e", "x", "p", "r", "e", "s", "s", "i", "o", "n">>

\* Variant of _calculated_field_complexity that looks for the medium terms
\* before the critical ones.
_calculated_field_complexity_MediumFirst(calculation_type, expression) ==
    LET ct == LowerText(StripText(IF calculation_type = NoneText
                                  THEN <<>> ELSE calculation_type))
        expr_str == LowerText(IF expression = NoneText
                              THEN <<>> ELSE expression)
    IN  IF ct = EmbeddedCalculation THEN "Medium"
        ELSE IF ct \in Range(LowKinds) THEN "Low"
        ELSE IF AnyTermIn(medium_terms, expr_str, 1) THEN "Medium"
        ELSE IF AnyTermIn(critical_terms, expr_str, 1) THEN "Critical"
        ELSE "Low"

\* _calculated_field_complexity: ct is lower-cased before it is compared
\* with the literals.
_calculated_field_complexity(calculation_type, expression) ==
    LET ct == LowerText(StripText(IF calculation_type = NoneText
                                  THEN <<>> ELSE calculation_type))
        expr_str == LowerText(IF expression = NoneText
                              THEN <<>> ELSE expression)
    IN  IF ct = EmbeddedCalculation THEN "Medium"
        ELSE IF ct \in Range(LowKinds) THEN "Low"
        ELSE IF AnyTermIn(critical_terms, expr_str, 1) THEN "Critical"
        ELSE IF AnyTermIn(medium_terms, expr_str, 1) THEN "Medium"
        ELSE "Low"

\* _get_prop_any_case: the first of the keys whose value is not None.
RECURSIVE _get_prop_any_case(_, _, _)
_get_prop_any_case(props, key_candidates, k) ==
    IF k > Len(key_candidates) THEN NoneText
    ELSE IF key_candidates[k] \in DOMAIN props
            /\ props[key_candidates[k]] # NoneText
         THEN props[key_candidates[k]]
    ELSE _get_prop_any_case(props, key_candidates, k + 1)

\* complexity_fn of _get_calculated_fields_breakdown.
complexity_fn(props) ==
    LET raw == _get_prop_any_case(props, <<"calculation_type">>, 1)
        stripped == StripText(IF raw = NoneText THEN <<>> ELSE raw)
        calc_type == IF stripped = <<>> THEN ExpressionKind ELSE stripped
        expr_raw == _get_prop_any_case(
                        props, <<"expression", "formula", "calculation">>, 1)
    IN  _calculated_field_complexity(calc_type, expr_raw)

(***************************************************************************)
(* Complexity tally                                                        *)
(***************************************************************************)
LevelSet == Range(COMPLEXITY_LEVELS)

\* ComplexityTracker(): empty count / dash_roots / report_roots.
NewTracker ==
    [count        |-> [l \in LevelSet |-> 0],
     dash_roots   |-> [l \in LevelSet |-> {}],
     report_roots |-> [l \in LevelSet |-> {}]]

\* ComplexityTracker.add
TrackerAdd(tracker, complexity, dash_root_key, report_root_key) ==
    LET c_key == Lower(Strip(complexity))
    IN  IF c_key \notin LevelSet THEN tracker
        ELSE [count |-> [tracker.count EXCEPT ![c_key] = @ + 1],
              dash_roots |->
                 IF dash_root_key # NoKey
                 THEN [tracker.dash_roots EXCEPT
                          ![c_key] = @ \cup {dash_root_key}]
                 ELSE tracker.dash_roots,
              report_roots |->
                 IF report_root_key # NoKey
                 THEN [tracker.report_roots EXCEPT
                          ![c_key] = @ \cup {report_root_key}]
                 ELSE tracker.report_roots]

\* Variant of _build_by_complexity that reports the number of items of the
\* level as its containing counts when the level has a root at all.
_build_by_complexity_PerItem(complexity_to_count, complexity_to_dash_roots, complexity_to_report_roots) ==
    [level \in LevelSet |->
        [complexity |-> level,
         count |-> complexity_to_count[level],
         dashboards_containing_count |->
             IF complexity_to_dash_roots[level] = {} THEN 0
             ELSE complexity_to_count[level],
         reports_containing_count |->
             IF complexity_to_report_roots[level] = {} THEN 0
             ELSE complexity_to_count[level]]]

\* _build_by_complexity (count stands for the section's count_key).
_build_by_complexity(complexity_to_count, complexity_to_dash_roots, complexity_to_report_roots) ==
    [level \in LevelSet |->
        [complexity |-> level,
         count |-> complexity_to_count[level],
         dashboards_containing_count |->
             Cardinality(complexity_to_dash_roots[level]),
         reports_containing_count |->
             Cardinality(complexity_to_report_roots[level])]]

\* Variant of _build_complexity_stats that compares the item's complexity
\* as it is written, without strip and lower.
_build_complexity_stats_AsWritten(items) ==
    [l \in LevelSet |->
        Cardinality({i \in DOMAIN items : items[i].complexity = l})]

\* _build_complexity_stats: items per level, by the item's complexity.
_build_complexity_stats(items) ==
    [l \in LevelSet |->
        Cardinality({i \in DOMAIN items :
                        Lower(Strip(items[i].complexity)) = l})]

(***************************************************************************)
(* Generic breakdown (filters, parameters, sorts)                          *)
(***************************************************************************)
\* The complexity_fn / default_complexity each caller passes:
\* filters: is_complex is True -> Medium else Low; parameters: Medium;
\* sorts: Low; calculated fields: by kind and expression; prompts: Medium.
\* The loops of the queries, measures and dimensions breakdowns follow the
\* same pattern: queries are Medium for source_type query_ref, else Low;
\* measures and dimensions are classified by their expression.
ItemComplexity(object_type, obj) ==
    CASE object_type = "filter" ->
            IF obj.is_complex = TRUE THEN "Medium" ELSE "Low"
      [] object_type = "parameter" -> "Medium"
      [] object_type = "sort" -> "Low"
      [] object_type = "calculated_field" -> complexity_fn(obj)
      [] object_type = "query" ->
            IF "source_type" \in DOMAIN obj /\ obj.source_type = "query_ref"
            THEN "Medium" ELSE "Low"
      [] object_type \in {"measure", "dimension"} ->
            _calculated_field_complexity(
                ExpressionKind,
                _get_prop_any_case(
                    obj, <<"expression", "formula", "calculation">>, 1))
      [] OTHER -> "Medium"

\* The per-object loop of _get_generic_breakdown.
RECURSIVE GenericLoop(_, _, _, _, _, _, _)
\* One matching object: res is what _resolve_containment_root returned
\* for it, complexity its level.
GenericItem(objs, tree, rels, object_type, i, items, tracker, res, complexity) ==
    GenericLoop(objs, tree, rels, object_type, i + 1,
                Append(items,
                       [id |-> objs[i].id,
                        name |-> IF Strip(objs[i].name) = ""
                                 THEN "<unnamed>"
                                 ELSE Strip(objs[i].name),
                        complexity |-> complexity,
                        dashboards_containing_count |-> res[1],
                        reports_containing_count |-> res[2]]),
                TrackerAdd(tracker, complexity, res[3], res[4]))

GenericLoop(objs, tree, rels, object_type, i, items, tracker) ==
    IF i > Len(objs) THEN [items |-> items, tracker |-> tracker]
    ELSE IF _normalize_object_type(objs[i].object_type) # object_type
    THEN GenericLoop(objs, tree, rels, object_type, i + 1, items, tracker)
    ELSE GenericItem(objs, tree, rels, object_type, i, items, tracker,
                     _resolve_containment_root(objs, tree, rels, objs[i]),
                     ItemComplexity(object_type, objs[i]))

\* What _get_generic_breakdown returns once the loop has filled the items
\* and the tracker.
GenericResult(acc) ==
    [total |-> Len(acc.items),
     stats |-> _build_complexity_stats(acc.items),
     items |-> acc.items,
     by_complexity |->
         _build_by_complexity(acc.tracker.count, acc.tracker.dash_roots,
                              acc.tracker.report_roots)]

_get_generic_breakdown(objs, tree, rels, object_type) ==
    GenericResult(GenericLoop(objs, tree, rels, object_type, 1, <<>>,
                              NewTracker))

(***************************************************************************)
(* Breadth-first reachability from dashboard/report roots                  *)
(***************************************************************************)
\* _collect_dashboard_report_roots: every dashboard / report object, plus
\* every root get_root returns for an object.
_collect_dashboard_report_roots(objs, tree) ==
    LET typed(k) == {o \in IdsOf(objs) :
            _normalize_object_type(id_to_obj(objs, o).object_type) = k}
        found(k) == {get_root(objs, tree, o)[1] : o \in
            {x \in IdsOf(objs) : get_root(objs, tree, x)[2] = k
                                 /\ get_root(objs, tree, x)[1] # None}}
    IN  [dashboard_roots |-> typed("dashboard") \cup found("dashboard"),
         report_roots    |-> typed("report") \cup found("report")]

\* _build_usage_graphs: rows with both endpoints known; uses / references /
\* connects_to feed usage_children and usage_parents, has_column feeds
\* has_column_parents.
usage_children(objs, rels, n) ==
    LET rs == SelectSeq(rels, LAMBDA r :
                /\ r.source_object_id \in IdsOf(objs)
                /\ r.target_object_id \in IdsOf(objs)
                /\ _normalize_rel_type(r.relationship_type)
                      \in USAGE_REL_TYPES
                /\ r.source_object_id = n)
    IN  [k \in DOMAIN rs |-> rs[k].target_object_id]

usage_parents(objs, rels, n) ==
    LET rs == SelectSeq(rels, LAMBDA r :
                /\ r.source_object_id \in IdsOf(objs)
                /\ r.target_object_id \in IdsOf(objs)
                /\ _normalize_rel_type(r.relationship_type)
                      \in USAGE_REL_TYPES
                /\ r.target_object_id = n)
    IN  [k \in DOMAIN rs |-> rs[k].source_object_id]

has_column_parents(objs, rels, n) ==
    LET rs == SelectSeq(rels, LAMBDA r :
                /\ r.source_object_id \in IdsOf(objs)
                /\ r.target_object_id \in IdsOf(objs)
                /\ _normalize_rel_type(r.relationship_type)
                      = HAS_COLUMN_REL_TYPE
                /\ r.target_object_id = n)
    IN  [k \in DOMAIN rs |-> rs[k].source_object_id]

\* The while-queue loop shared by bfs_reach_nodes, bfs_reach_modules and
\* bfs_reach_connections: pop, skip if seen, mark, enqueue the unseen
\* neighbours adj[node].  Returns the set of nodes marked.
RECURSIVE BfsSeen(_, _, _)
BfsSeen(adj, queue, seen) ==
    IF queue = <<>> THEN seen
    ELSE LET node == Head(queue)
         IN  IF node \in seen THEN BfsSeen(adj, Tail(queue), seen)
             ELSE LET seen2 == seen \cup {node}
                      more  == SelectSeq(adj[node],
                                         LAMBDA c : c \notin seen2)
                  IN  BfsSeen(adj, Tail(queue) \o more, seen2)

\* Neighbours followed by bfs_reach_nodes of _get_packages_breakdown:
\* contains_children, then contains_parent.
PackageAdj(objs, tree) ==
    [n \in IdsOf(objs) |->
        ChildrenOf(tree, n) \o
        (IF ParentOf(tree, n) # None THEN <<ParentOf(tree, n)>> ELSE <<>>)]

\* Neighbours followed by bfs_reach_modules and bfs_reach_connections:
\* contains_children + usage_children + usage_parents + has_column_parents.
UsageAdj(objs, tree, rels) ==
    [n \in IdsOf(objs) |->
        ChildrenOf(tree, n) \o usage_children(objs, rels, n)
        \o usage_parents(objs, rels, n) \o has_column_parents(objs, rels, n)]

\* node -> the roots (of the given set) whose search marked node.
RootsReaching(adj, roots, node) ==
    {rid \in roots : node \in BfsSeen(adj, <<rid>>, {})}

\* dashboards_and_reports_using: distinct roots over all ids of the group.
dashboards_and_reports_using(adj, roots, ids) ==
    [dash |-> Cardinality(UNION {RootsReaching(adj, roots.dashboard_roots, m)
                                    : m \in ids}),
     rep  |-> Cardinality(UNION {RootsReaching(adj, roots.report_roots, m)
                                    : m \in ids})]

(***************************************************************************)
(* Packages breakdown                                                      *)
(***************************************************************************)
\* _get_package_root: walk contains_parent upward to the first package.
RECURSIVE PackageRootWalk(_, _, _, _)
PackageRootWalk(objs, tree, current, visited) ==
    IF current = None \/ current \in visited THEN None
    ELSE IF current \in IdsOf(objs)
            /\ _normalize_object_type(
                   id_to_obj(objs, current).object_type) = "package"
         THEN current
         ELSE PackageRootWalk(objs, tree, ParentOf(tree, current),
                              visited \cup {current})

_get_package_root(objs, tree, object_id) ==
    PackageRootWalk(objs, tree, object_id, {})

\* Position of the entry with the given key in a list of entries, 0 if none.
IndexOfKey(entries, key) ==
    IF \E i \in DOMAIN entries : entries[i].key = key
    THEN CHOOSE i \in DOMAIN entries : entries[i].key = key
    ELSE 0

\* dict[key] = (id, set()) on first sight, then dict[key][1].update(ids):
\* entries keep insertion order.
AddToGroup(entries, key, canonical, ids) ==
    LET i == IndexOfKey(entries, key)
    IN  IF i = 0
        THEN Append(entries, [key |-> key, canonical |-> canonical,
                              members |-> ids])
        ELSE [entries EXCEPT ![i].members = @ \cup ids]

\* package_key_to_canonical_and_members: every object joins the package
\* its containment chain leads to; every package object joins itself.
RECURSIVE PackageMembersLoop(_, _, _, _)
PackageMembersLoop(objs, tree, i, entries) ==
    IF i > Len(objs) THEN entries
    ELSE LET pkg_id == _get_package_root(objs, tree, objs[i].id)
         IN  PackageMembersLoop(objs, tree, i + 1,
                IF pkg_id = None THEN entries
                ELSE AddToGroup(entries, pkg_id, pkg_id, {objs[i].id}))

RECURSIVE PackageSelfLoop(_, _, _)
PackageSelfLoop(objs, i, entries) ==
    IF i > Len(objs) THEN entries
    ELSE PackageSelfLoop(objs, i + 1,
            IF _normalize_object_type(objs[i].object_type) = "package"
            THEN AddToGroup(entries, objs[i].id, objs[i].id, {objs[i].id})
            ELSE entries)

\* norm_name of a package: the stripped lower-cased name; an empty name is
\* replaced by str(pkg_id), a blank one by "_id_:" + str(pkg_id).
PackageNameKey(objs, pkg_id) ==
    LET name == id_to_obj(objs, pkg_id).name
    IN  IF name = "" \/ name = None THEN <<"str", pkg_id>>
        ELSE IF Lower(Strip(name)) = "" THEN <<"_id_", pkg_id>>
        ELSE <<"name", Lower(Strip(name))>>

\* "Deduplicate by normalized name": name_to_canonical_and_members.
RECURSIVE PackageNameDedupe(_, _, _, _)
PackageNameDedupe(objs, by_id, i, entries) ==
    IF i > Len(by_id) THEN entries
    ELSE PackageNameDedupe(objs, by_id, i + 1,
            AddToGroup(entries, PackageNameKey(objs, by_id[i].canonical),
                       by_id[i].canonical, by_id[i].members))

\* Members of the given normalized type.
CountType(objs, ids, ot) ==
    Cardinality({m \in ids \cap IdsOf(objs) :
        _normalize_object_type(id_to_obj(objs, m).object_type) = ot})

\* name_to_canonical_and_members, in insertion order.
PackageGroups(objs, tree) ==
    PackageNameDedupe(objs,
        PackageSelfLoop(objs, 1, PackageMembersLoop(objs, tree, 1, <<>>)),
        1, <<>>)

_get_packages_breakdown(objs, tree, rels) ==
    LET roots  == _collect_dashboard_report_roots(objs, tree)
        adj    == PackageAdj(objs, tree)
        groups == PackageGroups(objs, tree)
        packages_list ==
            [i \in DOMAIN groups |->
                LET g == groups[i]
                    using == dashboards_and_reports_using(adj, roots,
                                                          g.members)
                    dm == CountType(objs, g.members, "data_module")
                IN  [package_id |-> g.canonical,
                     package_name |->
                        IF id_to_obj(objs, g.canonical).name = ""
                        THEN g.canonical
                        ELSE id_to_obj(objs, g.canonical).name,
                     complexity |-> IF dm > 2 THEN "Medium" ELSE "Low",
                     total_data_modules |-> dm,
                     total_tables |-> CountType(objs, g.members, "table"),
                     total_columns |-> CountType(objs, g.members, "column"),
                     dashboards_using_count |-> using.dash,
                     reports_using_count |-> using.rep]]
    IN  [total |-> Len(packages_list),
         stats |-> _build_complexity_stats(packages_list),
         items |-> packages_list]

(***************************************************************************)
(* Data modules and data-source connections breakdowns                     *)
(***************************************************************************)
\* Variant of the grouping key that prefers the name over the storeID.
DedupeKey_NameFirst(obj) ==
    IF obj.name # None /\ Strip(obj.name) # ""
    THEN <<"name", Lower(Strip(obj.name))>>
    ELSE IF obj.storeID # None /\ Strip(obj.storeID) # ""
    THEN <<"storeid", Lower(Strip(obj.storeID))>>
    ELSE <<"_id_", obj.id>>

\* The grouping key of _dedupe_by_store_id_or_name:
\* ("storeID:" + str(store_id).strip()).lower(), else "name:" + name.lower()
\* of the stripped name, else "_id_:" + str(oid).
DedupeKey(obj) ==
    IF obj.storeID # None /\ Strip(obj.storeID) # ""
    THEN <<"storeid", Lower(Strip(obj.storeID))>>
    ELSE IF obj.name # None /\ Strip(obj.name) # ""
    THEN <<"name", Lower(Strip(obj.name))>>
    ELSE <<"_id_", obj.id>>

\* _dedupe_by_store_id_or_name: key_to_canonical (first object of the key)
\* and key_to_ids, in first-seen order.
RECURSIVE DedupeLoop(_, _, _)
DedupeLoop(objs_of_type, i, entries) ==
    IF i > Len(objs_of_type) THEN entries
    ELSE DedupeLoop(objs_of_type, i + 1,
            AddToGroup(entries, DedupeKey(objs_of_type[i]),
                       objs_of_type[i].id, {objs_of_type[i].id}))

_dedupe_by_store_id_or_name(objs_of_type) == DedupeLoop(objs_of_type, 1, <<>>)

\* The entries both breakdowns build from the deduplicated groups.
UsingEntries(objs, tree, rels, objs_of_type) ==
    LET roots  == _collect_dashboard_report_roots(objs, tree)
        adj    == UsageAdj(objs, tree, rels)
        groups == _dedupe_by_store_id_or_name(objs_of_type)
    IN  [i \in DOMAIN groups |->
            LET using == dashboards_and_reports_using(adj, roots,
                                                      groups[i].members)
            IN  [id |-> groups[i].canonical,
                 name |-> Strip(id_to_obj(objs, groups[i].canonical).name),
                 complexity |-> "Medium",
                 dashboards_using_count |-> using.dash,
                 reports_using_count |-> using.rep]]

_get_data_modules_breakdown(objs, tree, rels) ==
    LET module_objects == SelectSeq(objs, LAMBDA o :
            _normalize_object_type(o.object_type) = "data_module")
        modules_list == UsingEntries(objs, tree, rels, module_objects)
    IN  [total |-> Len(module_objects),
         total_unique |-> Len(modules_list),
         stats |-> [l \in LevelSet |->
                      IF l = "medium" THEN Len(modules_list) ELSE 0],
         items |-> modules_list]

_get_data_source_connections_breakdown(objs, tree, rels) ==
    LET connection_objects == SelectSeq(objs, LAMBDA o :
            _is_connection_object_type(
                _normalize_object_type(o.object_type)))
        connections_list == UsingEntries(objs, tree, rels,
                                         connection_objects)
    IN  [total |-> Len(connection_objects),
         total_unique |-> Len(connections_list),
         stats |-> [l \in LevelSet |->
                      IF l = "medium" THEN Len(connections_list) ELSE 0],
         items |-> connections_list]

(***************************************************************************)
(* Appendix                                                                *)
(***************************************************************************)
\* (name or str(id)).strip() or str(id)
StrippedNameOrId(obj) ==
    IF obj.name # None /\ Strip(obj.name) # "" THEN Strip(obj.name)
    ELSE obj.id

\* What tree.get_root returns for every object and every source of a row.
RootOfAll(objs, tree, rels) ==
    [o \in IdsOf(objs) \cup
           {rels[i].source_object_id : i \in DOMAIN rels} |->
        get_root(objs, tree, o)]

\* The first source of a row that targets an object whose root is a
\* report, None when there is none: the loop over relationships_by_target
\* of the report grouping, which stops at the first such source.
RECURSIVE FirstReportRoot(_, _)
FirstReportRoot(root_of, srcs) ==
    IF srcs = <<>> THEN None
    ELSE IF root_of[Head(srcs)][2] = "report"
            /\ root_of[Head(srcs)][1] # None
    THEN root_of[Head(srcs)][1]
    ELSE FirstReportRoot(root_of, Tail(srcs))

\* dashboard_to_ids / report_to_ids before the fallback: the objects whose
\* root is root_id, and the root object itself.
RootedIds(objs, root_of, kind, root_id) ==
    {o \in IdsOf(objs) :
        \/ root_of[o] = <<root_id, kind>>
        \/ o = root_id /\
             _normalize_object_type(id_to_obj(objs, o).object_type) = kind}

\* The keys of dashboard_to_ids / report_to_ids.
AppendixRoots(objs, root_of, kind) ==
    {o \in IdsOf(objs) :
        _normalize_object_type(id_to_obj(objs, o).object_type) = kind}
    \cup {root_of[o][1] : o \in {x \in IdsOf(objs) :
                                    root_of[x][2] = kind
                                    /\ root_of[x][1] # None}}

\* obj_ids_in_reports before the fallback.
InReportGroup(objs, root_of, o) ==
    \/ root_of[o][2] = "report" /\ root_of[o][1] # None
    \/ _normalize_object_type(id_to_obj(objs, o).object_type) = "report"

\* report_to_ids[root_id] in the end: an object in no report's group joins
\* the report of the first source of a row to it that has one.
report_to_ids(objs, rels, root_of, root_id) ==
    RootedIds(objs, root_of, "report", root_id) \cup
    {o \in IdsOf(objs) :
        /\ ~InReportGroup(objs, root_of, o)
        /\ FirstReportRoot(root_of, relationships_by_target(rels, o))
              = root_id}

\* The members of the root's group.
AppendixMembers(objs, rels, root_of, kind, root_id) ==
    IF kind = "report" THEN report_to_ids(objs, rels, root_of, root_id)
    ELSE RootedIds(objs, root_of, kind, root_id)

\* Bottom-to-top: the targets of the usage rows between objects whose
\* source has the root.
UsedFromRoot(objs, rels, root_of, kind, root_id) ==
    {rels[i].target_object_id : i \in {j \in DOMAIN rels :
        /\ _normalize_rel_type(rels[j].relationship_type) \in USAGE_REL_TYPES
        /\ rels[j].source_object_id \in IdsOf(objs)
        /\ rels[j].target_object_id \in IdsOf(objs)
        /\ root_of[rels[j].source_object_id] = <<root_id, kind>>}}

\* Top-down: the nodes the search from the root marks along usage_children.
UsageReach(objs, rels, root_id) ==
    BfsSeen([n \in IdsOf(objs) |-> usage_children(objs, rels, n)],
            <<root_id>>, {})

\* The object ids handed to add_by_type for the root over the three passes.
Collected(objs, rels, root_of, kind, root_id) ==
    (AppendixMembers(objs, rels, root_of, kind, root_id)
        \cup UsedFromRoot(objs, rels, root_of, kind, root_id)
        \cup UsageReach(objs, rels, root_id)) \cap IdsOf(objs)

\* add_by_type: the names of the collected objects of the type.
NamesOfType(objs, collected, ot) ==
    {StrippedNameOrId(id_to_obj(objs, p)) : p \in {o \in collected :
        _normalize_object_type(id_to_obj(objs, o).object_type) = ot}}

\* One entry of dashboards_list / reports_list; package and data_module are
\* the sorted lists of distinct names, kept as the sets of their elements.
\* The objects of the model carry no properties, so owner is "".
AppendixEntry(objs, root_id, collected) ==
    [name |-> IF id_to_obj(objs, root_id).name \notin {None, ""}
              THEN id_to_obj(objs, root_id).name ELSE root_id,
     package |-> NamesOfType(objs, collected, "package"),
     data_module |-> NamesOfType(objs, collected, "data_module"),
     owner |-> ""]

\* The entries of dashboards_list / reports_list, each under the id of its
\* root.
AppendixList(objs, rels, root_of, kind) ==
    [r \in AppendixRoots(objs, root_of, kind) |->
        AppendixEntry(objs, r, Collected(objs, rels, root_of, kind, r))]

\* _get_appendix
_get_appendix(objs, tree, rels) ==
    [dashboards |-> AppendixList(objs, rels, RootOfAll(objs, tree, rels),
                                 "dashboard"),
     reports |-> AppendixList(objs, rels, RootOfAll(objs, tree, rels),
                              "report")]

(***************************************************************************)
(* Report generation                                                       *)
(***************************************************************************)
\* Object types whose breakdown calls _resolve_containment_root per object.
ResolvedTypes == {"filter", "parameter", "sort"}

\* generate_report_for_assessment: the tree is built once, then every
\* section is computed from the same objects, tree and relationships.
generate_report_for_assessment(objs, rels) ==
    LET tree == build_containment_tree(objs, rels)
    IN  [generated |-> TRUE,
         filters_breakdown |->
             _get_generic_breakdown(objs, tree, rels, "filter"),
         parameters_breakdown |->
             _get_generic_breakdown(objs, tree, rels, "parameter"),
         sorts_breakdown |->
             _get_generic_breakdown(objs, tree, rels, "sort"),
         packages_breakdown |-> _get_packages_breakdown(objs, tree, rels),
         data_modules_breakdown |->
             _get_data_modules_breakdown(objs, tree, rels),
         data_source_connections_breakdown |->
             _get_data_source_connections_breakdown(objs, tree, rels),
         appendix |-> _get_appendix(objs, tree, rels)]

\* The tree's cache once every section has run: get_root was called for
\* every object id.
RootCacheAfter(objs, rels) ==
    LET tree == build_containment_tree(objs, rels)
    IN  [o \in IdsOf(objs) |-> get_root(objs, tree, o)]

\* The resolver's return value for every object it was called on.
ResolvedAfter(objs, rels) ==
    LET tree == build_containment_tree(objs, rels)
    IN  [o \in {x \in IdsOf(objs) :
                  _normalize_object_type(id_to_obj(objs, x).object_type)
                      \in ResolvedTypes} |->
            _resolve_containment_root(objs, tree, rels, id_to_obj(objs, o))]

NoReport == [generated |-> FALSE]

(***************************************************************************)
(* Assessments explored.  "x9" is the id of no object row.                 *)
(***************************************************************************)
\* Containment chains, cycles, re-parenting, usage edges in both directions.
ChainAssessment ==
    [objects |->
        <<Obj("d1", "dashboard", "F1", "Sales"),
          Obj("r1", "report", "F2", "Ops"),
          Obj("f1", "filter", "F1", "Sales"),
          Obj("f2", "filter", "F2", "Ops"),
          Obj("p1", "parameter", "F1", "Ops")>>,
     candidates |->
        {Rel("d1", "f1", "contains"), Rel("f1", "f2", "contains"),
         Rel("f2", "f1", "parent_child"), Rel("r1", "d1", "contains"),
         Rel("r1", "p1", "contains"), Rel("r1", "f2", "uses"),
         Rel("p1", "f2", "has_column"), Rel("d1", "p1", "uses"),
         Rel("f1", "r1", "references")}]

\* Rows with a missing endpoint, of unknown type, or with the type's enum
\* name instead of its value.
DanglingAssessment ==
    [objects |->
        <<Obj("r1", "report", "F1", "Ops"),
          Obj("d1", "DASHBOARD", "F2", "Sales"),
          [Obj("f1", "filter", "F3", "Sales") EXCEPT !.is_complex = TRUE],
          Obj("f2", "filter", "F3", "Ops"),
          Obj("s1", "sort", "F2", "Ops")>>,
     candidates |->
        {Rel("x9", "f1", "uses"), Rel("r1", "x9", "uses"),
         Rel("r1", "f2", "depends_on"), Rel("d1", "f2", "CONTAINS"),
         Rel("f1", "f2", "USES"), Rel("x9", "f2", "contains"),
         Rel("f2", "s1", "contains")}]

\* Packages re-extracted from several files.
PackageAssessment ==
    [objects |->
        <<[Obj("k1", "package", "F1", "Sales") EXCEPT !.storeID = "S1"],
          [Obj("k2", "package", "F2", "Ops") EXCEPT !.storeID = "S1"],
          [Obj("k3", "package", "F3", "sales ") EXCEPT !.storeID = "S2"],
          Obj("m1", "data_module", "F1", "Sales"),
          Obj("t1", "table", "F2", "Ops"),
          Obj("r1", "report", "F4", "Ops")>>,
     candidates |->
        {Rel("k1", "m1", "contains"), Rel("k2", "t1", "contains"),
         Rel("k3", "t1", "contains"), Rel("r1", "k1", "uses"),
         Rel("r1", "m1", "contains"), Rel("m1", "t1", "has_column")}]

\* Data modules and connections re-extracted from several files.
ModuleAssessment ==
    [objects |->
        <<[Obj("m1", "data_module", "F1", "Sales") EXCEPT !.storeID = "S1"],
          [Obj("m2", "data_module", "F2", "Ops") EXCEPT !.storeID = "s1"],
          [Obj("m3", "data_module", "F3", "sales ") EXCEPT !.storeID = "  "],
          Obj("m4", "data_module", "F4", "Sales"),
          Obj("c1", "data_source", "F1", ""),
          Obj("c2", "datasourceconnection", "F2", ""),
          Obj("d1", "dashboard", "F5", "Sales"),
          Obj("r1", "report", "F6", "Ops")>>,
     candidates |->
        {Rel("r1", "m1", "uses"), Rel("d1", "m2", "references"),
         Rel("r1", "m3", "uses"), Rel("m4", "c1", "connects_to"),
         Rel("d1", "m4", "contains"), Rel("m3", "c2", "has_column")}]

Assessments ==
    {ChainAssessment, DanglingAssessment, PackageAssessment,
     ModuleAssessment}

(***************************************************************************)
(* Specification                                                           *)
(***************************************************************************)
Init ==
    /\ \E a \in Assessments :
          /\ objects = a.objects
          /\ candidates = a.candidates
    /\ relationships = <<>>
    /\ report = NoReport
    /\ root_cache = <<>>
    /\ resolved = <<>>
    /\ CalcIdle
    /\ EngineIdle
    /\ HierIdle
    /\ WalkIdle

\* The ingestion persists one more relationship row; a report generated
\* earlier no longer belongs to the snapshot.
AddRelationship(rel) ==
    /\ Len(relationships) < MaxRels
    /\ relationships' = Append(relationships, rel)
    /\ report' = NoReport
    /\ root_cache' = <<>>
    /\ resolved' = <<>>
    /\ UNCHANGED <<objects, candidates>>
    /\ UNCHANGED <<calcVars, engineVars, hierVars, walkVars>>

\* GET /assessments/{id}/report: generate_report_for_assessment.
GenerateReport ==
    /\ report' = generate_report_for_assessment(objects, relationships)
    /\ root_cache' = RootCacheAfter(objects, relationships)
    /\ resolved' = ResolvedAfter(objects, relationships)
    /\ UNCHANGED <<objects, candidates, relationships>>
    /\ UNCHANGED <<calcVars, engineVars, hierVars, walkVars>>

Next ==
    \/ \E rel \in candidates : AddRelationship(rel)
    \/ GenerateReport

Spec == Init /\ [][Next]_vars

(***************************************************************************)
(* Definitions used to state the properties                                *)
(***************************************************************************)
TreeNow == build_containment_tree(objects, relationships)

ObjectIds == IdsOf(objects)

TypeOf(o) == _normalize_object_type(id_to_obj(objects, o).object_type)

\* o is a dashboard or report object of the assessment.
IsRootObject(o) == o \in ObjectIds /\ TypeOf(o) \in ROOT_OBJECT_TYPES

\* Every id that occurs in the snapshot, as object or as endpoint.
AllIds ==
    ObjectIds \cup {relationships[i].source_object_id : i \in DOMAIN relationships}
              \cup {relationships[i].target_object_id : i \in DOMAIN relationships}

\* o is neither source nor target of any relationship row.
Isolated(o) ==
    \A i \in DOMAIN relationships :
        /\ relationships[i].source_object_id # o
        /\ relationships[i].target_object_id # o

\* The file holds a dashboard or report object.
FileHasRootObject(fid) ==
    \E i \in DOMAIN objects :
        /\ objects[i].file_id = fid
        /\ _normalize_object_type(objects[i].object_type)
              \in ROOT_OBJECT_TYPES

\* The section of the report that lists objects of the given type.
SectionOf(ot) ==
    CASE ot = "filter" -> report.filters_breakdown
      [] ot = "parameter" -> report.parameters_breakdown
      [] ot = "sort" -> report.sorts_breakdown

\* Items of a section at one level, by object id.
ItemIdsAt(section, level) ==
    {section.items[i].id : i \in
        {j \in DOMAIN section.items :
            Lower(Strip(section.items[j].complexity)) = level}}

(***************************************************************************)
(* C1                                                                      *)
(***************************************************************************)
\* C1: an object that no relationship mentions and whose file holds no
\* dashboard or report resolves to no root (0, 0, None, None); it is listed
\* and counted in its section's total, and the per-level containing counts
\* are those of the other items alone.
C1_IsolatedObjectHasNoRoot ==
    report.generated =>
        \A o \in DOMAIN resolved :
            (Isolated(o) /\ ~FileHasRootObject(id_to_obj(objects, o).file_id))
            => LET sec == SectionOf(TypeOf(o))
               IN  /\ resolved[o] = <<0, 0, NoKey, NoKey>>
                   /\ sec.total = Cardinality({x \in ObjectIds :
                                                 TypeOf(x) = TypeOf(o)})
                   /\ \E i \in DOMAIN sec.items :
                         /\ sec.items[i].id = o
                         /\ sec.items[i].dashboards_containing_count = 0
                         /\ sec.items[i].reports_containing_count = 0
                   /\ \A l \in LevelSet :
                         /\ sec.by_complexity[l].dashboards_containing_count
                            = Cardinality({resolved[x][3] :
                                  x \in ItemIdsAt(sec, l) \ {o}} \ {NoKey})
                         /\ sec.by_complexity[l].reports_containing_count
                            = Cardinality({resolved[x][4] :
                                  x \in ItemIdsAt(sec, l) \ {o}} \ {NoKey})

\* Witness: a report was generated while a filter is isolated in a file
\* without dashboard/report and another filter is attributed to a dashboard.
C1_Witness ==
    /\ report.generated
    /\ \E o \in DOMAIN resolved :
          /\ Isolated(o)
          /\ ~FileHasRootObject(id_to_obj(objects, o).file_id)
          /\ \E x \in DOMAIN resolved :
                x # o /\ TypeOf(x) = TypeOf(o) /\ resolved[x][1] = 1

(***************************************************************************)
(* C2                                                                      *)
(***************************************************************************)
\* The chain of containment parents above o: o, its parent, and so on.
ParentChain(o) ==
    LET n == Cardinality(ObjectIds)
        A[k \in 0..n] ==
            IF k = 0 THEN o
            ELSE LET prev == A[k - 1]
                 IN  IF prev = None THEN None
                     ELSE ParentOf(TreeNow, prev)
    IN  A

\* The first dashboard/report on the chain of o, with its kind.
FirstRootOnChain(o) ==
    LET A  == ParentChain(o)
        ks == {k \in DOMAIN A : IsRootObject(A[k])}
    IN  IF ks = {} THEN <<None, None>>
        ELSE LET k == CHOOSE m \in ks : \A j \in ks : m <= j
             IN  <<A[k], TypeOf(A[k])>>

\* C2: get_root gives a dashboard/report itself, otherwise the first
\* dashboard/report on the chain of containment parents, and (None, None)
\* exactly when the chain holds none.
C2_GetRootIsFirstRootOnChain ==
    report.generated =>
        \A o \in ObjectIds :
            /\ IsRootObject(o) => root_cache[o] = <<o, TypeOf(o)>>
            /\ root_cache[o] = FirstRootOnChain(o)
            /\ (root_cache[o] = <<None, None>>)
                  <=> (\A k \in DOMAIN ParentChain(o) :
                          ~IsRootObject(ParentChain(o)[k]))

\* Witness: a filter whose parent is not a root resolves through two steps
\* to a dashboard that is itself contained in a report, while another object
\* resolves to nothing.
C2_Witness ==
    /\ report.generated
    /\ \E o \in ObjectIds :
          /\ ~IsRootObject(o)
          /\ ~IsRootObject(ParentOf(TreeNow, o))
          /\ root_cache[o][2] = "dashboard"
          /\ ParentOf(TreeNow, root_cache[o][1]) # None
    /\ \E o \in ObjectIds : root_cache[o] = <<None, None>>

(***************************************************************************)
(* C3, C4                                                                  *)
(***************************************************************************)
\* The containment walk finds a dashboard/report for node n.
Rooted(n) == get_root(objects, TreeNow, n)[2] \in ROOT_OBJECT_TYPES

\* What the resolver returns for a root <<id, kind>>.
AsResolved(r) ==
    IF r[2] = "dashboard" THEN <<1, 0, <<"id", r[1]>>, NoKey>>
    ELSE <<0, 1, NoKey, <<"id", r[1]>>>>

\* The root key of a resolver result, NoKey if there is none.
KeyOf(res) == IF res[3] # NoKey THEN res[3] ELSE res[4]

\* Sources of the rows that target n, whatever their type.
SourcesOf(n) ==
    {relationships[i].source_object_id : i \in
        {j \in DOMAIN relationships :
            relationships[j].target_object_id = n}}

\* R[k]: the nodes within k backward steps of o.
ReverseReach(o) ==
    LET n == Cardinality(AllIds)
        R[k \in 0..n] ==
            IF k = 0 THEN {o}
            ELSE LET prev == R[k - 1]
                 IN  prev \cup UNION {SourcesOf(x) : x \in prev}
    IN  R

\* The distances at which a node with a dashboard/report root lies.
RootedDistances(o) ==
    LET R == ReverseReach(o)
    IN  {k \in DOMAIN R \ {0} : \E x \in R[k] \ R[k - 1] : Rooted(x)}

\* C3: a root found by the containment walk is returned whatever the
\* relationships and the file say; a synthetic ("file", file_id) root is
\* returned only when neither the walk nor the search over relationships
\* found a dashboard/report.
C3_StrategyOrder ==
    report.generated =>
        \A o \in DOMAIN resolved :
            /\ root_cache[o][2] \in ROOT_OBJECT_TYPES
                  => resolved[o] = AsResolved(root_cache[o])
            /\ (KeyOf(resolved[o]) # NoKey
                   /\ KeyOf(resolved[o])[1] = "file")
                  => /\ root_cache[o] = <<None, None>>
                     /\ RootedDistances(o) = {}
                     /\ KeyOf(resolved[o])[2] = id_to_obj(objects, o).file_id

\* Witness: one object is attributed by the walk to a report although its
\* file holds a dashboard, another is attributed by the search although its
\* file holds a container, and a third falls back to its file.
C3_Witness ==
    /\ report.generated
    /\ \E o \in DOMAIN resolved :
          /\ root_cache[o][2] = "report"
          /\ _file_to_container_type(objects,
                 id_to_obj(objects, o).file_id) = "dashboard"
    /\ \E o \in DOMAIN resolved :
          /\ KeyOf(resolved[o]) # NoKey
          /\ KeyOf(resolved[o])[1] = "file"
    /\ \E o \in DOMAIN resolved :
          /\ root_cache[o] = <<None, None>>
          /\ RootedDistances(o) # {}
          /\ FileHasRootObject(id_to_obj(objects, o).file_id)

UnionNeighbours(x) ==
    IF x \notin ObjectIds THEN {}
    ELSE Range(ChildrenOf(TreeNow, x))
         \cup Range(usage_children(objects, relationships, x))
         \cup Range(usage_parents(objects, relationships, x))
         \cup Range(has_column_parents(objects, relationships, x))

UnionReach(o) ==
    LET n == Cardinality(AllIds)
        R[k \in 0..n] ==
            IF k = 0 THEN {o}
            ELSE LET prev == R[k - 1]
                 IN  prev \cup UNION {UnionNeighbours(x) : x \in prev}
    IN  R[n]

\* Every row has a type of the vocabulary and both endpoints among the
\* objects.
KnownType(rel) ==
    _normalize_rel_type(rel.relationship_type)
        \in CONTAINMENT_REL_TYPES \cup USAGE_REL_TYPES \cup {HAS_COLUMN_REL_TYPE}

KnownEndpoints(rel) ==
    rel.source_object_id \in ObjectIds /\ rel.target_object_id \in ObjectIds

AllRowsKnown ==
    \A i \in DOMAIN relationships :
        KnownType(relationships[i]) /\ KnownEndpoints(relationships[i])

C5_MissingEndpointRowsIgnored ==
    report.generated =>
        LET kept == SelectSeq(relationships, KnownEndpoints)
        IN  /\ report = generate_report_for_assessment(objects, kept)
            /\ resolved = ResolvedAfter(objects, kept)

\* C6: rows whose type is outside the vocabulary are ignored: the report and
\* every root attribution are those obtained after deleting these rows.
C6_UnknownTypeRowsIgnored ==
    report.generated =>
        LET kept == SelectSeq(relationships, KnownType)
        IN  /\ report = generate_report_for_assessment(objects, kept)
            /\ resolved = ResolvedAfter(objects, kept)

(***************************************************************************)
(* C7                                                                      *)
(***************************************************************************)
GenericTypes == {"filter", "parameter", "sort"}

IdsOfType(ot) == {o \in ObjectIds : TypeOf(o) = ot}

\* The objects whose containment chain leads to package p (p included).
MembersOfPackage(p) ==
    {o \in ObjectIds : _get_package_root(objects, TreeNow, o) = p}

\* The storeID property is present and not blank.
HasStoreId(o) ==
    /\ id_to_obj(objects, o).storeID # None
    /\ Strip(id_to_obj(objects, o).storeID) # ""

\* C8: two package objects with the same storeID are reported as one entry,
\* whose data-module, table and column counts are taken over the members of
\* both.
C8_PackagesMergedByStoreId ==
    report.generated =>
        \A a, b \in IdsOfType("package") :
            (a # b /\ HasStoreId(a)
                /\ id_to_obj(objects, a).storeID
                     = id_to_obj(objects, b).storeID)
            => LET groups == PackageGroups(objects, TreeNow)
                   items  == report.packages_breakdown.items
               IN  \E i \in DOMAIN items :
                      LET all == UNION {MembersOfPackage(p) : p \in
                                  groups[i].members \cap IdsOfType("package")}
                      IN  /\ {a, b} \subseteq groups[i].members
                          /\ items[i].total_data_modules
                               = Cardinality(all \cap IdsOfType("data_module"))
                          /\ items[i].total_tables
                               = Cardinality(all \cap IdsOfType("table"))
                          /\ items[i].total_columns
                               = Cardinality(all \cap IdsOfType("column"))

\* C10: a package's dashboards_using_count / reports_using_count count the
\* dashboards / reports from which some member of the package is reachable
\* over containment children, usage children, usage parents and has-column
\* parents; a report that only uses the package is counted.
C10_PackageUsingCountsFollowUsage ==
    report.generated =>
        LET groups == PackageGroups(objects, TreeNow)
            items  == report.packages_breakdown.items
        IN  \A i \in DOMAIN items :
                /\ items[i].reports_using_count
                   = Cardinality({r \in IdsOfType("report") :
                        UnionReach(r) \cap groups[i].members # {}})
                /\ items[i].dashboards_using_count
                   = Cardinality({d \in IdsOfType("dashboard") :
                        UnionReach(d) \cap groups[i].members # {}})

(***************************************************************************)
(* C9                                                                      *)
(***************************************************************************)
\* The grouping key as the code forms it: the trimmed, case-folded storeID
\* when present and not blank, else the trimmed, case-folded name when not
\* empty, else the id.
FoldedKey(o) ==
    LET obj == id_to_obj(objects, o)
    IN  IF HasStoreId(o) THEN <<"storeid", Lower(Strip(obj.storeID))>>
        ELSE IF Strip(obj.name) # "" THEN <<"name", Lower(Strip(obj.name))>>
        ELSE <<"_id_", o>>

\* The grouping key with the storeID taken as it is.
VerbatimKey(o) ==
    LET obj == id_to_obj(objects, o)
    IN  IF HasStoreId(o) THEN <<"storeid", obj.storeID>>
        ELSE IF Strip(obj.name) # "" THEN <<"name", Lower(Strip(obj.name))>>
        ELSE <<"_id_", o>>

\* Position of object o in the object list.
PositionOf(o) == CHOOSE i \in DOMAIN objects : objects[i].id = o

\* The entries of a deduplicated section are the classes of Key over the
\* objects in ids: one entry per class, named after the first object of the
\* class, with using counts over the roots that reach any object of it.
EntriesAreKeyClasses(items, ids, Key(_)) ==
    /\ Len(items) = Cardinality({Key(o) : o \in ids})
    /\ \A i \in DOMAIN items :
          LET class == {o \in ids : Key(o) = Key(items[i].id)}
          IN  /\ items[i].id \in ids
              /\ \A o \in class : PositionOf(items[i].id) <= PositionOf(o)
              /\ items[i].dashboards_using_count
                 = Cardinality({d \in IdsOfType("dashboard") :
                      UnionReach(d) \cap class # {}})
              /\ items[i].reports_using_count
                 = Cardinality({r \in IdsOfType("report") :
                      UnionReach(r) \cap class # {}})

ConnectionIds == {o \in ObjectIds : _is_connection_object_type(TypeOf(o))}

\* C9 (as amended): data modules and connections are merged into one entry
\* exactly when their grouping keys are equal, the key being the trimmed,
\* case-folded storeID when present and not blank, else the trimmed,
\* case-folded name when not empty, else the id; the entry's using counts
\* are the numbers of distinct roots that reach any object of the group.
C9_MergedByFoldedKey ==
    report.generated =>
        /\ EntriesAreKeyClasses(report.data_modules_breakdown.items,
                                IdsOfType("data_module"), FoldedKey)
        /\ EntriesAreKeyClasses(
               report.data_source_connections_breakdown.items,
               ConnectionIds, FoldedKey)

\* Witness: two data modules whose storeIDs differ only in case form one
\* entry that a dashboard reaches through one and a report through the
\* other, next to a module with the same name but no storeID.
C9_Witness ==
    /\ report.generated
    /\ \E a, b \in IdsOfType("data_module") :
          /\ a # b
          /\ HasStoreId(a) /\ HasStoreId(b)
          /\ id_to_obj(objects, a).storeID # id_to_obj(objects, b).storeID
          /\ FoldedKey(a) = FoldedKey(b)
          /\ \E i \in DOMAIN report.data_modules_breakdown.items :
                LET e == report.data_modules_breakdown.items[i]
                IN  /\ e.id = a
                    /\ e.dashboards_using_count = 1
                    /\ e.reports_using_count = 1
                    /\ \E d \in IdsOfType("dashboard") :
                          b \in UnionReach(d) /\ a \notin UnionReach(d)

\* C9 (as stated): the key is the storeID property itself when present and
\* not blank.
C9_Original_MergedByVerbatimStoreId ==
    report.generated =>
        /\ EntriesAreKeyClasses(report.data_modules_breakdown.items,
                                IdsOfType("data_module"), VerbatimKey)
        /\ EntriesAreKeyClasses(
               report.data_source_connections_breakdown.items,
               ConnectionIds, VerbatimKey)

(***************************************************************************)
(* Calculated fields explored: every kind with every expression text.      *)
(***************************************************************************)
CalculationKinds ==
    <<<<"e", "m", "b", "e", "d", "d", "e", "d", "C", "a", "l", "c", "u", "l", "a", "t", "i", "o", "n">>,
      <<"e", "x", "p", "r", "e", "s", "s", "i", "o", "n">>,
      <<" ", "E", "x", "p", "r", "e", "s", "s", "i", "o", "n", " ">>,
      <<"c", "a", "s", "e", "_", "e", "x", "p", "r", "e", "s", "s", "i", "o", "n">>,
      <<"I", "F", "_", "E", "X", "P", "R", "E", "S", "S", "I", "O", "N">>,
      <<"a", "g", "g", "r", "e", "g", "a", "t", "e", "_", "f", "u", "n", "c", "t", "i", "o", "n">>,
      <<"f", "u", "n", "c", "t", "i", "o", "n">>,
      <<"c", "u", "s", "t", "o", "m">>,
      <<" ", " ">>>>

ExpressionTexts ==
    <<<<"P", "O", "W", "E", "R", "(", "x", ",", "2", ")">>,
      <<"C", "A", "S", "T", "(", "x", " ", "A", "S", " ", "I", "N", "T", ")">>,
      <<"c", "a", "s", "t", "(", "P", "e", "r", "i", "o", "d", ")">>,
      <<"a", " ", "+", " ", "b">>,
      <<"f", "o", "r", "e", "c", "a", "s", "t">>,
      <<"L", "o", "o", "k", "u", "p", "(", "k", ")">>,
      <<"[", "M", "o", "v", "i", "n", "g", "-", "T", "o", "t", "a", "l", "]">>,
      <<>>>>

\* No assessment is loaded while single fields are classified.
ReportIdle ==
    /\ objects = <<>>
    /\ candidates = {}
    /\ relationships = <<>>
    /\ report = NoReport
    /\ root_cache = <<>>
    /\ resolved = <<>>

CalcInit ==
    /\ ReportIdle
    /\ EngineIdle
    /\ HierIdle
    /\ WalkIdle
    /\ \E kind \in Range(CalculationKinds) \cup {NoneText},
          expr \in Range(ExpressionTexts) \cup {NoneText},
          formula \in {NoneText, ExpressionTexts[1]} :
          calculated_field = [calculation_type |-> kind,
                              expression |-> expr, formula |-> formula]
    /\ cf_complexity = None

\* The breakdown classifies the field.
Classify ==
    /\ cf_complexity = None
    /\ cf_complexity' = complexity_fn(calculated_field)
    /\ UNCHANGED calculated_field
    /\ UNCHANGED <<reportVars, engineVars, hierVars, walkVars>>

CalcNext == Classify

CalcSpec == CalcInit /\ [][CalcNext]_vars

\* The field has been classified.
Classified == cf_complexity # None

\* The expression text the classifier is given: the first of expression and
\* formula that is set, else the empty text.
ExpressionTextOf(field) ==
    IF field.expression # NoneText THEN field.expression
    ELSE IF field.formula # NoneText THEN field.formula
    ELSE <<>>

\* The calculation kind the classifier is given, trimmed and case-folded;
\* a missing or blank kind counts as "expression".
KindOf(field) ==
    LET k == IF field.calculation_type = NoneText THEN <<>>
             ELSE StripText(field.calculation_type)
    IN  IF k = <<>> THEN ExpressionKind ELSE LowerText(k)

\* term occurs somewhere in text.
Occurs(term, text) ==
    \E i \in 1..(Len(text) - Len(term) + 1) :
        \A j \in 1..Len(term) : text[i + j - 1] = term[j]

\* C13: a calculated field whose calculation kind is "embeddedCalculation"
\* is classified Medium, whatever its expression text contains.
C13_EmbeddedCalculationIsMedium ==
    (Classified /\ calculated_field.calculation_type = EmbeddedCalculation)
        => cf_complexity = "Medium"

HIERARCHY_RELATIONSHIP_TYPES == <<"parent_child", "contains", "has_column">>

\* object_id of the virtual root of _handle_orphaned_nodes.
VirtualRoot == "__virtual_root__"

\* HierarchyNode.__init__
HierarchyNode(obj) ==
    [object_id |-> obj.id, object_type |-> obj.object_type,
     depth |-> 0, children |-> <<>>, parent |-> None,
     child_count |-> 0, descendant_count |-> 0]

\* A relationship dict takes part when both ids are set and its type, as
\* written, is one of the hierarchy types.
IsHierarchyRel(rel) ==
    /\ rel.relationship_type \in Range(HIERARCHY_RELATIONSHIP_TYPES)
    /\ rel.source_object_id \notin {None, ""}
    /\ rel.target_object_id \notin {None, ""}

\* _build_relationship_maps: relationships_by_source[source] is the list of
\* (target, type); the key set of relationships_by_target.
relationships_by_source(rels, source_id) ==
    LET rs == SelectSeq(rels, LAMBDA r :
                  IsHierarchyRel(r) /\ r.source_object_id = source_id)
    IN  [k \in DOMAIN rs |->
            <<rs[k].target_object_id, rs[k].relationship_type>>]

HasIncoming(rels, obj_id) ==
    \E k \in DOMAIN rels :
        IsHierarchyRel(rels[k]) /\ rels[k].target_object_id = obj_id

\* graph of _detect_and_break_cycles: the sources in order of first
\* occurrence, and the targets of each source in row order.
RECURSIVE GraphKeys(_, _, _)
GraphKeys(rels, k, keys) ==
    IF k > Len(rels) THEN keys
    ELSE IF IsHierarchyRel(rels[k])
            /\ rels[k].source_object_id \notin Range(keys)
         THEN GraphKeys(rels, k + 1, Append(keys, rels[k].source_object_id))
    ELSE GraphKeys(rels, k + 1, keys)

GraphGet(rels, node) ==
    LET ts == relationships_by_source(rels, node)
    IN  [k \in DOMAIN ts |-> ts[k][1]]

\* list.index: the first position of x in s.
IndexOf(s, x) == CHOOSE i \in DOMAIN s : s[i] = x /\ \A j \in 1..(i - 1) : s[j] # x

\* has_cycle of _detect_and_break_cycles.  st holds visited, rec_stack,
\* cycles and edges_to_remove; raised records the ValueError of path.index
\* when the neighbour is in rec_stack but not on the path.  A call that
\* returns True leaves its nodes in rec_stack.
RECURSIVE has_cycle(_, _, _, _)
RECURSIVE HasCycleNeighbours(_, _, _, _, _)
has_cycle(rels, node, path, st) ==
    HasCycleNeighbours(rels, node, Append(path, node),
        [st EXCEPT !.visited = @ \cup {node}, !.rec_stack = @ \cup {node}],
        1)

HasCycleNeighbours(rels, node, path, st, k) ==
    LET neighbours == GraphGet(rels, node)
    IN  IF k > Len(neighbours)
        THEN [found |-> FALSE,
              st |-> [st EXCEPT !.rec_stack = @ \ {node}]]
        ELSE LET neighbour == neighbours[k]
             IN  IF neighbour \notin st.visited
                 THEN LET r == has_cycle(rels, neighbour, path, st)
                      IN  IF r.found \/ r.st.raised THEN r
                          ELSE HasCycleNeighbours(rels, node, path, r.st,
                                                  k + 1)
                 ELSE IF neighbour \in st.rec_stack
                 THEN IF neighbour \notin Range(path)
                      THEN [found |-> FALSE,
                            st |-> [st EXCEPT !.raised = TRUE]]
                      ELSE LET cycle == SubSeq(path, IndexOf(path, neighbour),
                                               Len(path)) \o <<neighbour>>
                           IN  [found |-> TRUE,
                                st |-> [st EXCEPT
                                   !.cycles = Append(@, cycle),
                                   !.edges_to_remove = @ \cup
                                      {<<cycle[Len(cycle) - 1],
                                         cycle[Len(cycle)]>>}]]
                 ELSE HasCycleNeighbours(rels, node, path, st, k + 1)

\* for node in graph: if node not in visited: has_cycle(node, [])
RECURSIVE DetectFrom(_, _, _, _)
DetectFrom(rels, keys, k, st) ==
    IF k > Len(keys) \/ st.raised THEN st
    ELSE IF keys[k] \in st.visited THEN DetectFrom(rels, keys, k + 1, st)
    ELSE DetectFrom(rels, keys, k + 1, has_cycle(rels, keys[k], <<>>, st).st)

\* _detect_and_break_cycles: the cycles found, and the relationships whose
\* (source, target) pair was not marked for removal.
_detect_and_break_cycles(rels) ==
    LET st == DetectFrom(rels, GraphKeys(rels, 1, <<>>), 1,
                  [visited |-> {}, rec_stack |-> {}, cycles |-> <<>>,
                   edges_to_remove |-> {}, raised |-> FALSE])
    IN  [raised |-> st.raised,
         detected_cycles |-> st.cycles,
         filtered |-> SelectSeq(rels, LAMBDA r :
                          <<r.source_object_id, r.target_object_id>>
                              \notin st.edges_to_remove)]

\* _identify_root_nodes: folders, and objects with no incoming hierarchy
\* relationship whose parent_id is unset or names no node.
_identify_root_nodes(objs, rels) ==
    SelectSeq([k \in DOMAIN objs |-> objs[k]], LAMBDA obj :
        \/ Lower(obj.object_type) = "folder"
        \/ /\ ~HasIncoming(rels, obj.id)
           /\ (obj.parent_id = None \/ obj.parent_id \notin IdsOf(objs)))

\* The children of _build_tree_from_root: targets that are nodes, by type
\* priority, first occurrence kept.
RECURSIVE UniqueChildren(_, _, _)
UniqueChildren(children, k, unique) ==
    IF k > Len(children) THEN unique
    ELSE IF children[k] \in Range(unique)
         THEN UniqueChildren(children, k + 1, unique)
    ELSE UniqueChildren(children, k + 1, Append(unique, children[k]))

ChildrenByPriority(nodes, rels, root_id) ==
    LET by_source == relationships_by_source(rels, root_id)
        of_type(t) == SelectSeq(by_source, LAMBDA p :
                          p[2] = t /\ p[1] \in DOMAIN nodes)
        all == of_type(HIERARCHY_RELATIONSHIP_TYPES[1])
                   \o of_type(HIERARCHY_RELATIONSHIP_TYPES[2])
                   \o of_type(HIERARCHY_RELATIONSHIP_TYPES[3])
    IN  UniqueChildren([k \in DOMAIN all |-> all[k][1]], 1, <<>>)

\* _build_tree_from_root: set the depth, then give every child that has no
\* parent yet this node as parent and build below it.
RECURSIVE _build_tree_from_root(_, _, _, _)
RECURSIVE BuildChildNodes(_, _, _, _, _, _)
_build_tree_from_root(nodes, rels, root_id, depth) ==
    IF root_id \notin DOMAIN nodes THEN nodes
    ELSE BuildChildNodes([nodes EXCEPT ![root_id].depth = depth], rels,
                         root_id, depth,
                         ChildrenByPriority(nodes, rels, root_id), 1)

BuildChildNodes(nodes, rels, root_id, depth, children, k) ==
    IF k > Len(children) THEN nodes
    ELSE IF nodes[children[k]].parent # None
         THEN BuildChildNodes(nodes, rels, root_id, depth, children, k + 1)
    ELSE LET attached == [nodes EXCEPT
                             ![children[k]].parent = root_id,
                             ![root_id].children = Append(@, children[k])]
         IN  BuildChildNodes(
                 _build_tree_from_root(attached, rels, children[k],
                                       depth + 1),
                 rels, root_id, depth, children, k + 1)

\* for root in root_nodes: self._build_tree_from_root(root, 0, "")
RECURSIVE BuildFromRoots(_, _, _, _)
BuildFromRoots(nodes, rels, roots, k) ==
    IF k > Len(roots) THEN nodes
    ELSE BuildFromRoots(_build_tree_from_root(nodes, rels, roots[k].id, 0),
                        rels, roots, k + 1)

\* _handle_orphaned_nodes: every node that had no parent and depth 0 when the
\* list was taken gets the virtual root as parent and is built from again.
RECURSIVE AttachOrphans(_, _, _, _)
AttachOrphans(nodes, rels, orphaned, k) ==
    IF k > Len(orphaned) THEN nodes
    ELSE AttachOrphans(
             _build_tree_from_root(
                 [nodes EXCEPT ![orphaned[k]].parent = VirtualRoot],
                 rels, orphaned[k], 0),
             rels, orphaned, k + 1)

_handle_orphaned_nodes(objs, nodes, rels) ==
    LET ordered == [k \in DOMAIN objs |-> objs[k].id]
        orphaned == SelectSeq(ordered, LAMBDA n :
                        nodes[n].parent = None /\ nodes[n].depth = 0)
    IN  [nodes |-> AttachOrphans(nodes, rels, orphaned, 1),
         virtual_root_children |-> orphaned]

\* calculate_node_metrics: child_count and descendant_count of node and of
\* everything below it; the first component is the returned count.
RECURSIVE calculate_node_metrics(_, _)
RECURSIVE SumChildMetrics(_, _, _, _)
calculate_node_metrics(nodes, n) ==
    LET counted == [nodes EXCEPT ![n].child_count = Len(nodes[n].children),
                                 ![n].descendant_count = Len(nodes[n].children)]
    IN  SumChildMetrics(counted, n, nodes[n].children, 1)

SumChildMetrics(nodes, n, children, k) ==
    IF k > Len(children) THEN <<nodes[n].descendant_count, nodes>>
    ELSE LET below == calculate_node_metrics(nodes, children[k])
         IN  SumChildMetrics(
                 [below[2] EXCEPT ![n].descendant_count = @ + below[1]],
                 n, children, k + 1)

\* _calculate_metrics: from every node whose parent is None.
RECURSIVE MetricsFromRoots(_, _, _)
MetricsFromRoots(nodes, roots, k) ==
    IF k > Len(roots) THEN nodes
    ELSE MetricsFromRoots(calculate_node_metrics(nodes, roots[k])[2],
                          roots, k + 1)

_calculate_metrics(objs, nodes) ==
    LET ordered == [k \in DOMAIN objs |-> objs[k].id]
    IN  MetricsFromRoots(nodes,
            SelectSeq(ordered, LAMBDA n : nodes[n].parent = None), 1)

\* build_hierarchy.  The ValueError of the cycle detection leaves the
\* service with the nodes just created.
build_hierarchy(objs, rels) ==
    LET created == [n \in IdsOf(objs) |-> HierarchyNode(id_to_obj(objs, n))]
        broken == _detect_and_break_cycles(rels)
        filtered == broken.filtered
        root_nodes == _identify_root_nodes(objs, filtered)
        built == BuildFromRoots(created, filtered, root_nodes, 1)
        adopted == _handle_orphaned_nodes(objs, built, filtered)
    IN  IF broken.raised
        THEN [built |-> TRUE, raised |-> TRUE, nodes |-> created,
              detected_cycles |-> <<>>, filtered |-> rels,
              root_nodes |-> <<>>, virtual_root_children |-> <<>>]
        ELSE [built |-> TRUE, raised |-> FALSE,
              nodes |-> _calculate_metrics(objs, adopted.nodes),
              detected_cycles |-> broken.detected_cycles,
              filtered |-> filtered,
              root_nodes |-> [k \in DOMAIN root_nodes |-> root_nodes[k].id],
              virtual_root_children |-> adopted.virtual_root_children]

(***************************************************************************)
(* Hierarchy inputs explored: three objects, with and without a folder and *)
(* parent_id properties, and relationship dicts added one at a time.       *)
(* In the third list A names C as its parent_id, so A is no root although  *)
(* it is the first node.                                                   *)
(***************************************************************************)
\* Largest number of relationship dicts given to build_hierarchy.
MaxEdges == 4

HierObj(id, object_type, parent_id) ==
    [id |-> id, object_type |-> object_type, parent_id |-> parent_id]

HierObjectLists ==
    {<<HierObj("A", "report", None), HierObj("B", "page", None),
       HierObj("C", "visualization", None)>>,
     <<HierObj("A", "Folder", None), HierObj("B", "page", "x9"),
       HierObj("C", "visualization", "A")>>,
     <<HierObj("A", "report", "C"), HierObj("B", "page", None),
       HierObj("C", "visualization", None)>>}

HierCandidates ==
    {Rel("A", "B", "contains"), Rel("B", "A", "contains"),
     Rel("B", "C", "contains"), Rel("C", "B", "contains"),
     Rel("C", "A", "has_column"), Rel("A", "A", "contains"),
     Rel("A", "C", "parent_child"), Rel("B", "C", "uses"),
     Rel("x9", "B", "contains")}

NotBuilt == [built |-> FALSE]

HierInit ==
    /\ ReportIdle
    /\ CalcIdle
    /\ EngineIdle
    /\ WalkIdle
    /\ hier_objects \in HierObjectLists
    /\ hier_relationships = <<>>
    /\ hierarchy = NotBuilt

\* One more relationship dict is part of the next call's input.
AddHierarchyRelationship(rel) ==
    /\ Len(hier_relationships) < MaxEdges
    /\ rel \notin Range(hier_relationships)
    /\ hier_relationships' = Append(hier_relationships, rel)
    /\ hierarchy' = NotBuilt
    /\ UNCHANGED hier_objects
    /\ UNCHANGED <<reportVars, calcVars, engineVars, walkVars>>

\* HierarchyService().build_hierarchy(objects, relationships)
BuildHierarchy ==
    /\ hierarchy' = build_hierarchy(hier_objects, hier_relationships)
    /\ UNCHANGED <<hier_objects, hier_relationships>>
    /\ UNCHANGED <<reportVars, calcVars, engineVars, walkVars>>

HierNext ==
    \/ \E rel \in HierCandidates : AddHierarchyRelationship(rel)
    \/ BuildHierarchy

HierSpec == HierInit /\ [][HierNext]_vars

\* The (source, target) pairs of the input's hierarchy relationships.
HierarchyEdges ==
    {<<hier_relationships[k].source_object_id,
       hier_relationships[k].target_object_id>> :
        k \in {i \in DOMAIN hier_relationships :
                  IsHierarchyRel(hier_relationships[i])}}

\* The ids reachable from the ids in from over one or more edges.
RECURSIVE ReachableOver(_, _)
ReachableOver(edges, from) ==
    LET next == from \cup {e[2] : e \in {x \in edges : x[1] \in from}}
    IN  IF next = from THEN from ELSE ReachableOver(edges, next)

OnCycle(edges, n) ==
    n \in ReachableOver(edges, {e[2] : e \in {x \in edges : x[1] = n}})

\* The input's hierarchy relationships contain a cycle.
InputHasCycle == \E e \in HierarchyEdges : OnCycle(HierarchyEdges, e[1])

\* The parent pointers of the built nodes, as (parent, child) pairs.
ParentPointers ==
    {<<hierarchy.nodes[n].parent, n>> :
        n \in {x \in DOMAIN hierarchy.nodes :
                  hierarchy.nodes[x].parent # None}}

\* n is its own ancestor over the parent pointers.
IsOwnAncestor(n) == OnCycle(ParentPointers, n)

\* C20: for every input whose hierarchy relationships contain a cycle,
\* build_hierarchy returns without raising and no node is its own ancestor
\* over the parent pointers.
C20_CyclicInputGivesTree ==
    (hierarchy.built /\ InputHasCycle) =>
        /\ ~hierarchy.raised
        /\ \A n \in DOMAIN hierarchy.nodes : ~IsOwnAncestor(n)

(***************************************************************************)
(* The reference-table service (BigQuery) and the engine's table caches    *)
(***************************************************************************)
\* What get_bigquery_client and client.query can meet:
\* BIGQUERY_PROJECT_ID unset; the credentials or the client cannot be
\* created; the query job fails; the tables are served.
BigQueryConditions ==
    {"not_configured", "no_client", "query_fails", "no_rows", "available"}

FEATURE_LIST_QUERY == "Looker_Perspective"

FEATURE_AREA_VISUALIZATION == "Visualization"

COMPLEX_ANALYSIS_FEATURE_QUERY == "Complex_Rules"

\* A row of either reference table.
FeatureRow(feature_area, feature, complexity, description) ==
    [feature_area |-> feature_area, feature |-> feature,
     complexity |-> complexity, description |-> description]

\* The rows the service holds for each query.
ReferenceTables(query) ==
    IF query = FEATURE_LIST_QUERY
    THEN <<FeatureRow("Calculated Field", "Pie", "Critical", "calc"),
           FeatureRow("Visualization", "Pie", "Low", "native"),
           FeatureRow("Visualization ", " Map", "Critical", "custom"),
           FeatureRow("Visualization", "pie", "High", "again"),
           FeatureRow("Visualization", "Bar", " medium", "restyle"),
           FeatureRow("Visualization", "Gauge", "High", "rebuild"),
           FeatureRow("Visualization", "List", None, None),
           FeatureRow("visualization", "KPI", "Low", "tile"),
           FeatureRow("Visualization", "  ", "High", "blank")>>
    ELSE <<FeatureRow("Visualization", "Custom charts", "Critical", None),
           FeatureRow("Calculated Field", "Nested", " Medium ", None),
           FeatureRow("Dashboard", "Tabs", "high", None),
           FeatureRow("visualization", "Other", "critical", None),
           FeatureRow("Report", None, "Low", None),
           FeatureRow("  ", "Blank", "low", None),
           FeatureRow("Report", "Burst", None, None)>>

\* get_bigquery_client: None when the project id is not configured;
\* creating the credentials or the client can raise.
get_bigquery_client(condition) ==
    IF condition = "not_configured" THEN [raised |-> FALSE, client |-> None]
    ELSE IF condition = "no_client" THEN [raised |-> TRUE, client |-> None]
    ELSE [raised |-> FALSE, client |-> condition]

\* _run_bigquery_query: the client is created before the try; a missing
\* client and a failing query give [].  queried tells whether client.query
\* was called.
_run_bigquery_query(condition, query) ==
    LET c == get_bigquery_client(condition)
    IN  IF c.raised
        THEN [raised |-> TRUE, rows |-> <<>>, queried |-> FALSE]
        ELSE IF c.client = None
        THEN [raised |-> FALSE, rows |-> <<>>, queried |-> FALSE]
        ELSE IF c.client = "query_fails"
        THEN [raised |-> FALSE, rows |-> <<>>, queried |-> TRUE]
        ELSE IF c.client = "no_rows"
        THEN [raised |-> FALSE, rows |-> <<>>, queried |-> TRUE]
        ELSE [raised |-> FALSE, rows |-> ReferenceTables(query),
              queried |-> TRUE]

\* A cache that is still None.
NotLoaded == [loaded |-> FALSE, rows |-> <<>>]

\* The queries an instance can send.
ReferenceQueries == {FEATURE_LIST_QUERY, COMPLEX_ANALYSIS_FEATURE_QUERY}

\* ReportService.__init__: both caches None.  queries records, for each
\* query, how often the instance has called client.query with it.
NewReportService ==
    [_feature_list_cache |-> NotLoaded,
     _complex_analysis_feature_cache |-> NotLoaded,
     queries |-> [q \in ReferenceQueries |-> 0]]

\* The instance once _run_bigquery_query has answered q for the query.
Queried(eng, query, q) ==
    [eng EXCEPT !.queries[query] = IF q.queried THEN @ + 1 ELSE @]

\* Variant of _get_feature_list that takes an empty cached list for a list
\* not loaded yet, and queries again.
_get_feature_list_RetryWhenEmpty(eng, condition) ==
    IF eng._feature_list_cache.loaded /\ eng._feature_list_cache.rows # <<>>
    THEN [raised |-> FALSE, rows |-> eng._feature_list_cache.rows,
          engine |-> eng]
    ELSE LET q == _run_bigquery_query(condition, FEATURE_LIST_QUERY)
         IN  IF q.raised
             THEN [raised |-> TRUE, rows |-> <<>>, engine |-> eng]
             ELSE [raised |-> FALSE, rows |-> q.rows,
                   engine |-> [Queried(eng, FEATURE_LIST_QUERY, q)
                                  EXCEPT !._feature_list_cache =
                                      [loaded |-> TRUE, rows |-> q.rows]]]

\* _get_feature_list: query on the first call, the cache afterwards.
_get_feature_list(eng, condition) ==
    IF eng._feature_list_cache.loaded
    THEN [raised |-> FALSE, rows |-> eng._feature_list_cache.rows,
          engine |-> eng]
    ELSE LET q == _run_bigquery_query(condition, FEATURE_LIST_QUERY)
         IN  IF q.raised
             THEN [raised |-> TRUE, rows |-> <<>>, engine |-> eng]
             ELSE [raised |-> FALSE, rows |-> q.rows,
                   engine |-> [Queried(eng, FEATURE_LIST_QUERY, q)
                                  EXCEPT !._feature_list_cache =
                                      [loaded |-> TRUE, rows |-> q.rows]]]

\* _get_complex_analysis_feature_list
_get_complex_analysis_feature_list(eng, condition) ==
    IF eng._complex_analysis_feature_cache.loaded
    THEN [raised |-> FALSE,
          rows |-> eng._complex_analysis_feature_cache.rows,
          engine |-> eng]
    ELSE LET q == _run_bigquery_query(condition,
                                      COMPLEX_ANALYSIS_FEATURE_QUERY)
         IN  IF q.raised
             THEN [raised |-> TRUE, rows |-> <<>>, engine |-> eng]
             ELSE [raised |-> FALSE, rows |-> q.rows,
                   engine |-> [Queried(eng, COMPLEX_ANALYSIS_FEATURE_QUERY, q)
                                  EXCEPT !._complex_analysis_feature_cache =
                                      [loaded |-> TRUE, rows |-> q.rows]]]

\* x or "": None becomes the empty string.
OrEmpty(x) == IF x = None THEN "" ELSE x

\* str.replace(" ", "_") on the feature areas of the tables.
ReplaceSpaces(s) ==
    CASE s = "calculated field" -> "calculated_field"
      [] OTHER -> s

\* A lookup is the ordered list of its (key, value) entries.
LookupHas(lookup, key) == \E i \in DOMAIN lookup : lookup[i].key = key

LookupGet(lookup, key) ==
    lookup[CHOOSE i \in DOMAIN lookup : lookup[i].key = key].value

\* The loop of _get_visualization_complexity_lookup: rows of the area
\* "Visualization", keyed by the lower-cased feature; the first row of a
\* key is kept.
RECURSIVE VisualizationLookupLoop(_, _, _)
VisualizationLookupLoop(rows, i, lookup) ==
    IF i > Len(rows) THEN lookup
    ELSE LET area == Strip(OrEmpty(rows[i].feature_area))
             feature == Strip(OrEmpty(rows[i].feature))
             key == Lower(feature)
         IN  IF area # FEATURE_AREA_VISUALIZATION \/ feature = ""
                \/ LookupHas(lookup, key)
             THEN VisualizationLookupLoop(rows, i + 1, lookup)
             ELSE VisualizationLookupLoop(rows, i + 1,
                    Append(lookup,
                        [key |-> key,
                         value |-> [complexity |-> rows[i].complexity,
                                    description |-> rows[i].description]]))

_get_visualization_complexity_lookup(rows) ==
    VisualizationLookupLoop(rows, 1, <<>>)

\* The loop of _get_complex_analysis_feature_lookup, keyed by
\* (area.lower().replace(" ", "_"), complexity.strip().lower()).
RECURSIVE FeatureLookupLoop(_, _, _)
FeatureLookupLoop(rows, i, lookup) ==
    IF i > Len(rows) THEN lookup
    ELSE LET area == Strip(OrEmpty(rows[i].feature_area))
             complexity == Lower(Strip(OrEmpty(rows[i].complexity)))
             key == <<ReplaceSpaces(Lower(area)), complexity>>
         IN  IF area = "" \/ complexity = "" \/ LookupHas(lookup, key)
             THEN FeatureLookupLoop(rows, i + 1, lookup)
             ELSE FeatureLookupLoop(rows, i + 1,
                    Append(lookup,
                        [key |-> key,
                         value |-> IF rows[i].feature = None THEN None
                                   ELSE Strip(rows[i].feature)]))

_get_complex_analysis_feature_lookup(rows) == FeatureLookupLoop(rows, 1, <<>>)

\* viz_complexity_lookup.get(key) or {}, then info.get("complexity").
InfoComplexity(lookup, key) ==
    IF LookupHas(lookup, key) THEN LookupGet(lookup, key).complexity
    ELSE None

InfoDescription(lookup, key) ==
    IF LookupHas(lookup, key) THEN LookupGet(lookup, key).description
    ELSE None

(***************************************************************************)
(* Visualization objects                                                   *)
(***************************************************************************)
\* The allowlist used when bi_parsers cannot be imported.
VISUALIZATION_TYPE_NAMES ==
    {"Pie", "Bar", "Line", "Area", "Donut", "Scatter", "Bubble", "Radar",
     "Clustered Bar", "Stacked Bar", "Clustered Column", "Stacked Column",
     "Pie Chart", "Bar Chart", "Line Chart", "Area Chart", "Chart",
     "Data Table", "List", "CrossTab", "Map", "KPI", "Gauge", "Heatmap"}

\* obj.properties.get(key): None for a key the properties do not hold.
Prop(obj, key) == IF key \in DOMAIN obj THEN obj[key] ELSE None

\* Python truth of a property value.
Truthy(x) == x # None /\ x # ""

\* _get_visualization_type_for_object
_get_visualization_type_for_object(obj) ==
    LET viz == IF Truthy(Prop(obj, "visualization_type"))
               THEN Prop(obj, "visualization_type")
               ELSE Prop(obj, "type")
    IN  IF viz # None THEN viz
        ELSE IF Truthy(obj.object_type) THEN obj.object_type
        ELSE "unknown"

\* _is_visualization_object
_is_visualization_object(obj) ==
    _get_visualization_type_for_object(obj) \in VISUALIZATION_TYPE_NAMES

\* The lower-cased level of a visualization in the lookup:
\* ((info.get("complexity") or "") or "").strip().lower().
VizLevel(lookup, obj) ==
    LET key == Lower(Strip(_get_visualization_type_for_object(obj)))
    IN  Lower(Strip(OrEmpty(InfoComplexity(lookup, key))))

\* Variant of _derive_complexity_from_viz that reports the mildest level
\* present.
_derive_complexity_from_viz_Mildest(viz_by_complexity) ==
    IF viz_by_complexity["low"] > 0 THEN "Low"
    ELSE IF viz_by_complexity["medium"] > 0 THEN "Medium"
    ELSE IF viz_by_complexity["high"] > 0 THEN "High"
    ELSE IF viz_by_complexity["critical"] > 0 THEN "Critical"
    ELSE "Unknown"

\* _derive_complexity_from_viz
_derive_complexity_from_viz(viz_by_complexity) ==
    IF viz_by_complexity["critical"] > 0 THEN "Critical"
    ELSE IF viz_by_complexity["high"] > 0 THEN "High"
    ELSE IF viz_by_complexity["medium"] > 0 THEN "Medium"
    ELSE IF viz_by_complexity["low"] > 0 THEN "Low"
    ELSE "Unknown"

(***************************************************************************)
(* Stable sort (list.sort / sorted with a key) on entries that carry       *)
(* their key in the field sort_key.                                        *)
(***************************************************************************)
InsertByKey(sorted, x) ==
    LET k == Cardinality({i \in DOMAIN sorted :
                            sorted[i].sort_key <= x.sort_key})
    IN  SubSeq(sorted, 1, k) \o <<x>> \o SubSeq(sorted, k + 1, Len(sorted))

RECURSIVE SortLoop(_, _, _)
SortLoop(entries, i, sorted) ==
    IF i > Len(entries) THEN sorted
    ELSE SortLoop(entries, i + 1, InsertByKey(sorted, entries[i]))

SortedByKey(entries) == SortLoop(entries, 1, <<>>)

(***************************************************************************)
(* visualization_details                                                   *)
(***************************************************************************)
\* The root keys one visualization adds in _get_visualization_details:
\* its dashboard or report root, else the container of its file.
VizRootKeys(objs, tree, obj) ==
    LET r == get_root(objs, tree, obj.id)
        container == _file_to_container_type(objs, obj.file_id)
    IN  IF r[2] = "dashboard" /\ r[1] # None
        THEN [dash |-> {<<"id", r[1]>>}, rep |-> {}]
        ELSE IF r[2] = "report" /\ r[1] # None
        THEN [dash |-> {}, rep |-> {<<"id", r[1]>>}]
        ELSE IF container = "dashboard"
        THEN [dash |-> {<<"file", obj.file_id>>}, rep |-> {}]
        ELSE IF container = "report"
        THEN [dash |-> {}, rep |-> {<<"file", obj.file_id>>}]
        ELSE [dash |-> {}, rep |-> {}]

\* The keys of viz_to_count_and_containers in insertion order.
RECURSIVE VizTypesLoop(_, _, _)
VizTypesLoop(objs, i, types) ==
    IF i > Len(objs) THEN types
    ELSE LET t == _get_visualization_type_for_object(objs[i])
         IN  IF ~_is_visualization_object(objs[i]) \/ t \in Range(types)
             THEN VizTypesLoop(objs, i + 1, types)
             ELSE VizTypesLoop(objs, i + 1, Append(types, t))

\* The visualization objects of one type.
VizOfType(objs, t) ==
    {i \in DOMAIN objs : /\ _is_visualization_object(objs[i])
                         /\ _get_visualization_type_for_object(objs[i]) = t}

\* viz_to_queries[viz_type]: the queries a visualization of the type uses.
VizQueries(objs, rels, t) ==
    {rels[k].target_object_id : k \in
        {j \in DOMAIN rels :
            /\ _normalize_rel_type(rels[j].relationship_type)
                   \in USAGE_REL_TYPES
            /\ rels[j].source_object_id \in IdsOf(objs)
            /\ rels[j].target_object_id \in IdsOf(objs)
            /\ LET s == id_to_obj(objs, rels[j].source_object_id)
               IN  /\ _is_visualization_object(s)
                   /\ _get_visualization_type_for_object(s) = t
            /\ _normalize_object_type(
                   id_to_obj(objs, rels[j].target_object_id).object_type)
                   = "query"}}

\* (info.get("complexity") if info else None) or "Unknown"
ComplexityOrUnknown(lookup, key) ==
    IF Truthy(InfoComplexity(lookup, key)) THEN InfoComplexity(lookup, key)
    ELSE "Unknown"

_get_visualization_details(objs, tree, rels, feature_rows) ==
    LET lookup == _get_visualization_complexity_lookup(feature_rows)
        group_of(viz, members) ==
            [viz |-> viz,
             count |-> Cardinality(members),
             dash_roots |-> UNION {VizRootKeys(objs, tree,
                                       objs[i]).dash : i \in members},
             report_roots |-> UNION {VizRootKeys(objs, tree,
                                       objs[i]).rep : i \in members},
             sort_key |-> 0 - Cardinality(members)]
        groups_of(types) ==
            SortedByKey([n \in DOMAIN types |->
                            group_of(types[n], VizOfType(objs, types[n]))])
        entry_of(group, key) ==
            [visualization |-> group.viz,
             count |-> group.count,
             complexity |-> ComplexityOrUnknown(lookup, key),
             description |-> InfoDescription(lookup, key),
             dashboards_containing_count |-> Cardinality(group.dash_roots),
             reports_containing_count |-> Cardinality(group.report_roots),
             queries_using_count |->
                 Cardinality(VizQueries(objs, rels, group.viz))]
        breakdown_of(groups) ==
            [n \in DOMAIN groups |->
                entry_of(groups[n], Lower(Strip(groups[n].viz)))]
        OfLevel(breakdown, l) ==
            {n \in DOMAIN breakdown :
                Lower(Strip(breakdown[n].complexity)) = l}
        RECURSIVE SumCounts(_, _)
        SumCounts(breakdown, S) ==
            IF S = {} THEN 0
            ELSE LET n == CHOOSE x \in S : TRUE
                 IN  breakdown[n].count + SumCounts(breakdown, S \ {n})
        result(groups, breakdown, stats) ==
            [total |-> Cardinality({i \in DOMAIN objs :
                                      _is_visualization_object(objs[i])}),
             stats |-> stats,
             by_complexity |->
                 _build_by_complexity(stats,
                     [l \in LevelSet |->
                         UNION {groups[n].dash_roots :
                                   n \in OfLevel(breakdown, l)}],
                     [l \in LevelSet |->
                         UNION {groups[n].report_roots :
                                   n \in OfLevel(breakdown, l)}]),
             items |-> breakdown]
        with_breakdown(groups, breakdown) ==
            result(groups, breakdown,
                   [l \in LevelSet |->
                       SumCounts(breakdown, OfLevel(breakdown, l))])
        with_groups(groups) == with_breakdown(groups, breakdown_of(groups))
    IN  with_groups(groups_of(VizTypesLoop(objs, 1, <<>>)))

(***************************************************************************)
(* dashboards_breakdown and reports_breakdown                              *)
(***************************************************************************)
\* The keys of dashboard_to_ids / report_to_ids in insertion order: the
\* roots of the given kind in the order the objects resolve to them, then
\* the objects of the kind themselves.
RECURSIVE RootKeysLoop(_, _, _, _, _)
RootKeysLoop(objs, tree, kind, i, keys) ==
    IF i > Len(objs) THEN keys
    ELSE LET r == get_root(objs, tree, objs[i].id)
         IN  IF r[2] = kind /\ r[1] # None /\ r[1] \notin Range(keys)
             THEN RootKeysLoop(objs, tree, kind, i + 1, Append(keys, r[1]))
             ELSE RootKeysLoop(objs, tree, kind, i + 1, keys)

RECURSIVE OwnKeysLoop(_, _, _, _)
OwnKeysLoop(objs, kind, i, keys) ==
    IF i > Len(objs) THEN keys
    ELSE IF _normalize_object_type(objs[i].object_type) = kind
            /\ objs[i].id \notin Range(keys)
    THEN OwnKeysLoop(objs, kind, i + 1, Append(keys, objs[i].id))
    ELSE OwnKeysLoop(objs, kind, i + 1, keys)

RootKeys(objs, tree, kind) ==
    OwnKeysLoop(objs, kind, 1, RootKeysLoop(objs, tree, kind, 1, <<>>))

\* dashboard_to_ids[root] / report_to_ids[root] before the relationship
\* fallback: the objects whose get_root is the root, and the root.
ContainedMembers(objs, tree, kind, root) ==
    {o \in IdsOf(objs) : get_root(objs, tree, o) = <<root, kind>>}
        \cup {root}

\* The report the relationship fallback gives an object that no report
\* holds: the report root of the first source of a row that targets it.
RECURSIVE FirstReportOfSources(_, _, _, _)
FirstReportOfSources(objs, tree, srcs, k) ==
    IF k > Len(srcs) THEN None
    ELSE LET r == get_root(objs, tree, srcs[k])
         IN  IF r[2] = "report" /\ r[1] # None THEN r[1]
             ELSE FirstReportOfSources(objs, tree, srcs, k + 1)

\* report_to_ids[root] after the fallback.
ReportMembers(objs, tree, rels, root) ==
    LET held == UNION {ContainedMembers(objs, tree, "report", x) :
                          x \in Range(RootKeys(objs, tree, "report"))}
    IN  ContainedMembers(objs, tree, "report", root) \cup
        {o \in IdsOf(objs) \ held :
            FirstReportOfSources(objs, tree,
                relationships_by_target(rels, o), 1) = root}

\* counts["visualizations_<level>"] over the members.
VizByComplexity(objs, lookup, members) ==
    [l \in LevelSet |->
        Cardinality({o \in members :
            /\ _is_visualization_object(id_to_obj(objs, o))
            /\ VizLevel(lookup, id_to_obj(objs, o)) = l})]

\* counts[...] of the member objects that are no visualization and have
\* one of the types.
CountMembers(objs, members, types) ==
    Cardinality({o \in members :
        /\ ~_is_visualization_object(id_to_obj(objs, o))
        /\ _normalize_object_type(id_to_obj(objs, o).object_type)
               \in types})

\* (obj.name if obj else None) or str(id)
NameOrId(objs, oid) ==
    IF Truthy(id_to_obj(objs, oid).name) THEN id_to_obj(objs, oid).name
    ELSE oid

\* One entry of dashboards_list, from the counts of the dashboard's
\* members.
DashboardEntry(objs, dashboard_id, member_ids, viz_by_complexity) ==
    [dashboard_id |-> dashboard_id,
     dashboard_name |-> NameOrId(objs, dashboard_id),
     complexity |-> _derive_complexity_from_viz(viz_by_complexity),
     total_visualizations |->
         Cardinality({o \in member_ids :
             _is_visualization_object(id_to_obj(objs, o))}),
     visualizations_by_complexity |-> viz_by_complexity,
     total_tabs |-> CountMembers(objs, member_ids, {"tab"}),
     total_measures |-> CountMembers(objs, member_ids, {"measure"}),
     total_dimensions |-> CountMembers(objs, member_ids, {"dimension"}),
     total_calculated_fields |->
         CountMembers(objs, member_ids, {"calculated_field"}),
     total_data_modules |->
         CountMembers(objs, member_ids, {"data_module"}),
     total_packages |-> CountMembers(objs, member_ids, {"package"}),
     total_data_sources |->
         CountMembers(objs, member_ids,
                      {"data_source", "data_source_connection"})]

\* The entry of the dashboard with the given members.
DashboardOfMembers(objs, lookup, dashboard_id, member_ids) ==
    DashboardEntry(objs, dashboard_id, member_ids,
                   VizByComplexity(objs, lookup, member_ids))

\* dashboards_list: one entry per key of dashboard_to_ids.
DashboardsList(objs, tree, lookup, keys) ==
    [n \in DOMAIN keys |->
        DashboardOfMembers(objs, lookup, keys[n],
            ContainedMembers(objs, tree, "dashboard", keys[n]))]

\* The section, from dashboards_list.
RootsResult(roots_list) ==
    [total |-> Len(roots_list),
     stats |-> _build_complexity_stats(roots_list),
     items |-> roots_list]

_get_dashboards_breakdown(objs, tree, feature_rows) ==
    RootsResult(
        DashboardsList(objs, tree,
                       _get_visualization_complexity_lookup(feature_rows),
                       RootKeys(objs, tree, "dashboard")))

\* _get_report_type: reportType or report_type or cognosClass, else
\* "report".
_get_report_type(obj) ==
    LET t == IF Truthy(Prop(obj, "reportType")) THEN Prop(obj, "reportType")
             ELSE IF Truthy(Prop(obj, "report_type"))
             THEN Prop(obj, "report_type")
             ELSE Prop(obj, "cognosClass")
    IN  IF t # None THEN t ELSE "report"

\* counts["calculated_fields_<level>"] over the members.
CalculatedFieldsByComplexity(objs, members) ==
    [l \in LevelSet |->
        Cardinality({o \in members :
            /\ ~_is_visualization_object(id_to_obj(objs, o))
            /\ _normalize_object_type(id_to_obj(objs, o).object_type)
                   = "calculated_field"
            /\ Lower(Strip(complexity_fn(id_to_obj(objs, o)))) = l})]

\* Variant of the report complexity that does not look at the report type.
ReportComplexity_VizOnly(report_type, viz_by_complexity) ==
    _derive_complexity_from_viz(viz_by_complexity)

\* The report complexity of _get_reports_breakdown.
ReportComplexity(report_type, viz_by_complexity) ==
    IF Lower(Strip(OrEmpty(report_type))) = "interactivereport"
    THEN "Critical"
    ELSE _derive_complexity_from_viz(viz_by_complexity)

\* _get_reports_breakdown.  The counters of the data modules, packages,
\* data sources, tables and columns a report uses are not part of the
\* entries here.
\* One entry of reports_list, from the counts of the report's members.
ReportEntry(objs, report_id, member_ids, report_type, viz_by_complexity) ==
    [report_id |-> report_id,
     report_name |-> NameOrId(objs, report_id),
     report_type |-> report_type,
     complexity |-> ReportComplexity(report_type, viz_by_complexity),
     total_visualizations |->
         Cardinality({o \in member_ids :
             _is_visualization_object(id_to_obj(objs, o))}),
     visualizations_by_complexity |-> viz_by_complexity,
     calculated_fields_by_complexity |->
         CalculatedFieldsByComplexity(objs, member_ids),
     total_pages |-> CountMembers(objs, member_ids, {"page"}),
     total_filters |-> CountMembers(objs, member_ids, {"filter"}),
     total_parameters |-> CountMembers(objs, member_ids, {"parameter"}),
     total_sorts |-> CountMembers(objs, member_ids, {"sort"}),
     total_prompts |-> CountMembers(objs, member_ids, {"prompt"}),
     total_calculated_fields |->
         CountMembers(objs, member_ids, {"calculated_field"}),
     total_measures |-> CountMembers(objs, member_ids, {"measure"}),
     total_dimensions |-> CountMembers(objs, member_ids, {"dimension"})]

\* The entry of the report with the given members.
ReportOfMembers(objs, lookup, report_id, member_ids) ==
    ReportEntry(objs, report_id, member_ids,
                _get_report_type(id_to_obj(objs, report_id)),
                VizByComplexity(objs, lookup, member_ids))

\* reports_list: one entry per key of report_to_ids.
ReportsList(objs, tree, rels, lookup, keys) ==
    [n \in DOMAIN keys |->
        ReportOfMembers(objs, lookup, keys[n],
                        ReportMembers(objs, tree, rels, keys[n]))]

_get_reports_breakdown(objs, tree, rels, feature_rows) ==
    RootsResult(
        ReportsList(objs, tree, rels,
                    _get_visualization_complexity_lookup(feature_rows),
                    RootKeys(objs, tree, "report")))

(***************************************************************************)
(* Measures and dimensions breakdowns                                      *)
(***************************************************************************)
\* _get_measures_breakdown / _get_dimensions_breakdown: the loop of the
\* generic breakdown; the result has the total, the items and
\* by_complexity, and no "stats".
\* What the two breakdowns return: no stats map.
ExpressionResult(acc) ==
    [total |-> Len(acc.items),
     items |-> acc.items,
     by_complexity |->
         _build_by_complexity(acc.tracker.count, acc.tracker.dash_roots,
                              acc.tracker.report_roots)]

ExpressionBreakdown(objs, tree, rels, object_type) ==
    ExpressionResult(GenericLoop(objs, tree, rels, object_type, 1, <<>>,
                                 NewTracker))

_get_measures_breakdown(objs, tree, rels) ==
    ExpressionBreakdown(objs, tree, rels, "measure")

_get_dimensions_breakdown(objs, tree, rels) ==
    ExpressionBreakdown(objs, tree, rels, "dimension")

(***************************************************************************)
(* complex_analysis                                                        *)
(***************************************************************************)
\* entity_configs: (section_key, entity_name).
entity_configs ==
    <<<<"visualization_details", "visualization">>,
      <<"calculated_fields_breakdown", "calculated_field">>,
      <<"filters_breakdown", "filter">>,
      <<"measures_breakdown", "measure">>,
      <<"dimensions_breakdown", "dimension">>,
      <<"parameters_breakdown", "parameter">>,
      <<"sorts_breakdown", "sort">>,
      <<"prompts_breakdown", "prompt">>,
      <<"queries_breakdown", "query">>>>

\* feature_lookup.get((entity_name, level))
FeatureOf(feature_lookup, entity_name, level) ==
    IF LookupHas(feature_lookup, <<entity_name, level>>)
    THEN LookupGet(feature_lookup, <<entity_name, level>>)
    ELSE None

\* The four items of one entity, from the section's by_complexity.
EntityItems(sections, feature_lookup, section_key, entity_name) ==
    [n \in DOMAIN COMPLEXITY_LEVELS |->
        LET level == COMPLEXITY_LEVELS[n]
            by_complexity == sections[section_key].by_complexity
        IN  [complexity |-> level,
             count |-> by_complexity[level].count,
             dashboards_containing_count |->
                 by_complexity[level].dashboards_containing_count,
             reports_containing_count |->
                 by_complexity[level].reports_containing_count,
             feature |-> FeatureOf(feature_lookup, entity_name, level)]]

\* The four items of "dashboard" / "report", from the section's stats:
\* count_key is dashboards_containing_count or reports_containing_count
\* and the item has no other count.
RootItems(sections, feature_lookup, section_key, entity_name) ==
    [n \in DOMAIN COMPLEXITY_LEVELS |->
        LET level == COMPLEXITY_LEVELS[n]
        IN  [complexity |-> level,
             containing_count |-> sections[section_key].stats[level],
             feature |-> FeatureOf(feature_lookup, entity_name, level)]]

_build_complex_analysis(sections, complex_rows) ==
    LET feature_lookup == _get_complex_analysis_feature_lookup(complex_rows)
    IN  [e \in {entity_configs[n][2] : n \in DOMAIN entity_configs}
                \cup {"dashboard", "report"} |->
            IF e = "dashboard"
            THEN RootItems(sections, feature_lookup,
                           "dashboards_breakdown", e)
            ELSE IF e = "report"
            THEN RootItems(sections, feature_lookup, "reports_breakdown", e)
            ELSE LET n == CHOOSE k \in DOMAIN entity_configs :
                              entity_configs[k][2] = e
                 IN  EntityItems(sections, feature_lookup,
                                 entity_configs[n][1], e)]

(***************************************************************************)
(* summary                                                                 *)
(***************************************************************************)
feature_areas ==
    <<"visualization", "dashboard", "report", "calculated_field", "filter",
      "measure", "dimension", "parameter", "sort", "prompt", "query">>

\* str.capitalize() on the levels.
Capitalize(level) ==
    CASE level = "low" -> "Low"
      [] level = "medium" -> "Medium"
      [] level = "high" -> "High"
      [] level = "critical" -> "Critical"
      [] OTHER -> level

\* entity_name.replace("_", " ").title()
FeatureAreaDisplay(entity_name) ==
    CASE entity_name = "visualization" -> "Visualization"
      [] entity_name = "dashboard" -> "Dashboard"
      [] entity_name = "report" -> "Report"
      [] entity_name = "calculated_field" -> "Calculated Field"
      [] entity_name = "filter" -> "Filter"
      [] entity_name = "measure" -> "Measure"
      [] entity_name = "dimension" -> "Dimension"
      [] entity_name = "parameter" -> "Parameter"
      [] entity_name = "sort" -> "Sort"
      [] entity_name = "prompt" -> "Prompt"
      [] entity_name = "query" -> "Query"
      [] OTHER -> entity_name

\* item.get(count_key) or 0, and the two containing counts of an item.
ItemCount(entity_name, item) ==
    IF entity_name \in {"dashboard", "report"} THEN item.containing_count
    ELSE item.count

ItemDashboards(entity_name, item) ==
    IF entity_name = "dashboard" THEN item.containing_count
    ELSE IF entity_name = "report" THEN 0
    ELSE item.dashboards_containing_count

ItemReports(entity_name, item) ==
    IF entity_name = "report" THEN item.containing_count
    ELSE IF entity_name = "dashboard" THEN 0
    ELSE item.reports_containing_count

RECURSIVE SumItemCounts(_, _, _)
SumItemCounts(entity_name, items, i) ==
    IF i > Len(items) THEN 0
    ELSE ItemCount(entity_name, items[i])
            + SumItemCounts(entity_name, items, i + 1)

\* Variant of the level order of the representative complexity: the
\* mildest level first.
RepresentativeOrder_LowFirst == <<"low", "medium", "high", "critical">>

\* for level in ("critical", "high", "medium", "low")
RepresentativeOrder == <<"critical", "high", "medium", "low">>

\* The first item, in the level order, with a count above zero; 0 if none.
RECURSIVE RepresentativeItem(_, _, _)
RepresentativeItem(entity_name, items, k) ==
    IF k > Len(RepresentativeOrder) THEN 0
    ELSE LET hits == {i \in DOMAIN items :
                        /\ Lower(Strip(items[i].complexity))
                               = RepresentativeOrder[k]
                        /\ ItemCount(entity_name, items[i]) > 0}
         IN  IF hits # {} THEN CHOOSE i \in hits : \A j \in hits : i <= j
             ELSE RepresentativeItem(entity_name, items, k + 1)

\* round(100.0 * n / d, 1) in tenths of a percent; 0.0 when d is 0.
Percent(n, d) == IF d = 0 THEN 0 ELSE (2000 * n + d) \div (2 * d)

\* The loop over feature_areas of _build_summary.
RECURSIVE KeyFindingsLoop(_, _, _, _, _)
KeyFindingsLoop(complex_analysis, total_dashboards, total_reports, n, key_findings) ==
    IF n > Len(feature_areas) THEN key_findings
    ELSE LET entity_name == feature_areas[n]
             items == complex_analysis[entity_name]
             rep == RepresentativeItem(entity_name, items, 1)
         IN  IF SumItemCounts(entity_name, items, 1) = 0
             THEN KeyFindingsLoop(complex_analysis, total_dashboards,
                                  total_reports, n + 1, key_findings)
             ELSE KeyFindingsLoop(complex_analysis, total_dashboards,
                    total_reports, n + 1,
                    Append(key_findings,
                      [feature_area |-> FeatureAreaDisplay(entity_name),
                       complexity |->
                          IF rep = 0 THEN "Low"
                          ELSE Capitalize(Lower(Strip(
                                   items[rep].complexity))),
                       count |-> IF rep = 0 THEN 0
                                 ELSE ItemCount(entity_name, items[rep]),
                       dashboards_percent |->
                          IF rep = 0 THEN 0
                          ELSE Percent(ItemDashboards(entity_name,
                                           items[rep]), total_dashboards),
                       reports_percent |->
                          IF rep = 0 THEN 0
                          ELSE Percent(ItemReports(entity_name, items[rep]),
                                       total_reports)]))

\* The item of a level: next(i for i in items if complexity == level).
LevelItem(items, level) ==
    items[CHOOSE i \in DOMAIN items :
            /\ Lower(Strip(items[i].complexity)) = level
            /\ \A j \in 1..(i - 1) :
                   Lower(Strip(items[j].complexity)) # level]

_build_summary(sections, complex_analysis) ==
    [key_findings |->
        KeyFindingsLoop(complex_analysis,
                        sections["dashboards_breakdown"].total,
                        sections["reports_breakdown"].total, 1, <<>>),
     high_level_complexity_overview |->
        [n \in DOMAIN COMPLEXITY_LEVELS |->
            LET level == COMPLEXITY_LEVELS[n]
            IN  [complexity |-> Capitalize(level),
                 visualization_count |->
                    LevelItem(complex_analysis["visualization"],
                              level).count,
                 dashboard_count |->
                    LevelItem(complex_analysis["dashboard"],
                              level).containing_count,
                 report_count |->
                    LevelItem(complex_analysis["report"],
                              level).containing_count]],
     inventory |->
        [Dashboard |-> sections["dashboards_breakdown"].total,
         Report |-> sections["reports_breakdown"].total,
         Visualization |-> sections["visualization_details"].total,
         Package |-> sections["packages_breakdown"].total,
         DataModule |-> sections["data_modules_breakdown"].total,
         Connection |->
            sections["data_source_connections_breakdown"].total_unique,
         CalculatedField |-> sections["calculated_fields_breakdown"].total,
         Filter |-> sections["filters_breakdown"].total,
         Parameter |-> sections["parameters_breakdown"].total,
         Sort |-> sections["sorts_breakdown"].total,
         Prompt |-> sections["prompts_breakdown"].total,
         Query |-> sections["queries_breakdown"].total,
         Measure |-> sections["measures_breakdown"].total,
         Dimension |-> sections["dimensions_breakdown"].total]]

(***************************************************************************)
(* challenges                                                              *)
(***************************************************************************)
\* dashboard_or_report_name of a challenge entry.
ChallengeContainerName(objs, tree, obj) ==
    LET r == get_root(objs, tree, obj.id)
        container == IF Truthy(obj.file_id)
                     THEN _file_to_container_type(objs, obj.file_id)
                     ELSE None
    IN  IF r[2] \in {"dashboard", "report"} /\ r[1] # None
        THEN NameOrId(objs, r[1])
        ELSE IF container = "dashboard" THEN "Unknown (dashboard)"
        ELSE IF container = "report" THEN "Unknown (report)"
        ELSE None

\* The per-visualization loop of _get_challenges.
RECURSIVE ChallengesLoop(_, _, _, _, _)
ChallengesLoop(objs, tree, lookup, i, challenges) ==
    IF i > Len(objs) THEN challenges
    ELSE IF ~_is_visualization_object(objs[i])
    THEN ChallengesLoop(objs, tree, lookup, i + 1, challenges)
    ELSE LET obj == objs[i]
             viz_type == _get_visualization_type_for_object(obj)
             key == Lower(Strip(viz_type))
         IN  ChallengesLoop(objs, tree, lookup, i + 1,
                Append(challenges,
                   [id |-> obj.id,
                    visualization |-> IF Strip(OrEmpty(obj.name)) = ""
                                      THEN obj.id
                                      ELSE Strip(OrEmpty(obj.name)),
                    visualization_type |-> viz_type,
                    complexity |-> ComplexityOrUnknown(lookup, key),
                    description |-> InfoDescription(lookup, key),
                    dashboard_or_report_name |->
                        ChallengeContainerName(objs, tree, obj)]))

\* Variant of complexity_order that puts the medium entries first.
complexity_order_MediumFirst(c) ==
    CASE c = "critical" -> 2
      [] c = "high" -> 1
      [] c = "medium" -> 0
      [] OTHER -> 99

\* complexity_order.get(c, 99)
complexity_order(c) ==
    CASE c = "critical" -> 0
      [] c = "high" -> 1
      [] c = "medium" -> 2
      [] OTHER -> 99

allowed_complexity == {"critical", "high", "medium"}

\* The filtered entries with the key they are sorted on.
ChallengeKeyed(filtered) ==
    [n \in DOMAIN filtered |->
        [entry |-> filtered[n],
         sort_key |-> complexity_order(
                          Lower(Strip(filtered[n].complexity)))]]

\* The entries in sorted order.
ChallengeEntries(sorted) == [n \in DOMAIN sorted |-> sorted[n].entry]

\* _get_challenges: filter on the allowed levels, then a stable sort on
\* complexity_order.  id is the object the entry was built from (the
\* entry itself names it by its display name).
_get_challenges(objs, tree, feature_rows) ==
    [visualization |->
        ChallengeEntries(SortedByKey(ChallengeKeyed(
            SelectSeq(ChallengesLoop(objs, tree,
                          _get_visualization_complexity_lookup(feature_rows),
                          1, <<>>),
                      LAMBDA c : Lower(Strip(c.complexity))
                                     \in allowed_complexity))))]

(***************************************************************************)
(* ReportService.generate_report_for_assessment                            *)
(***************************************************************************)
\* The sections that consult the engine's tables, in the order the code
\* fills them; the remaining sections are those of
\* generate_report_for_assessment above.
EngineSections(objs, rels, feature_rows) ==
    LET tree == build_containment_tree(objs, rels)
    IN  [visualization_details |->
             _get_visualization_details(objs, tree, rels, feature_rows),
         dashboards_breakdown |->
             _get_dashboards_breakdown(objs, tree, feature_rows),
         reports_breakdown |->
             _get_reports_breakdown(objs, tree, rels, feature_rows),
         calculated_fields_breakdown |->
             _get_generic_breakdown(objs, tree, rels, "calculated_field"),
         prompts_breakdown |->
             _get_generic_breakdown(objs, tree, rels, "prompt"),
         queries_breakdown |->
             _get_generic_breakdown(objs, tree, rels, "query"),
         measures_breakdown |-> _get_measures_breakdown(objs, tree, rels),
         dimensions_breakdown |->
             _get_dimensions_breakdown(objs, tree, rels)]

\* The report once both tables are at hand.
ReportOfSections(objs, rels, feature_rows, sections, complex_analysis) ==
    sections @@
    [complex_analysis |-> complex_analysis,
     summary |-> _build_summary(sections, complex_analysis),
     challenges |->
         _get_challenges(objs, build_containment_tree(objs, rels),
                         feature_rows)]

\* The report from the sections: complex_analysis is built from them.
ReportWithAnalysis(objs, rels, feature_rows, complex_rows, sections) ==
    ReportOfSections(objs, rels, feature_rows, sections,
                     _build_complex_analysis(sections, complex_rows))

ReportFrom(objs, rels, feature_rows, complex_rows) ==
    ReportWithAnalysis(objs, rels, feature_rows, complex_rows,
                       EngineSections(objs, rels, feature_rows)
                           @@ generate_report_for_assessment(objs, rels))

\* The generation did not return: an exception left it.
Raised == [generated |-> FALSE, raised |-> TRUE]

\* The generation once both lookups have answered: fl and ca are what
\* _get_feature_list and _get_complex_analysis_feature_list returned.
GenerateWithTables(objs, rels, fl, ca) ==
    IF ca.raised
    THEN [engine |-> fl.engine, report |-> Raised]
    ELSE [engine |-> ca.engine,
          report |-> ReportFrom(objs, rels, fl.rows, ca.rows)]

\* The generation once the feature list has answered.
GenerateWithFeatureList(eng, condition, objs, rels, fl) ==
    IF fl.raised
    THEN [engine |-> eng, report |-> Raised]
    ELSE GenerateWithTables(objs, rels, fl,
             _get_complex_analysis_feature_list(fl.engine, condition))

\* generate_report_for_assessment on an engine instance: the feature list
\* is first needed by the visualization details, the complex-analysis
\* table by _build_complex_analysis; an exception of either lookup leaves
\* the generation.
ReportService_generate_report_for_assessment(eng, condition, objs, rels) ==
    GenerateWithFeatureList(eng, condition, objs, rels,
                            _get_feature_list(eng, condition))

(***************************************************************************)
(* Assessments with visualizations                                         *)
(***************************************************************************)
\* Largest number of visualization objects of an assessment.
MaxViz == 4

\* Largest number of generations whose result is kept for comparison.
MaxRuns == 3

\* A visualization object with properties.visualization_type.
Viz(id, file_id, name, visualization_type) ==
    Obj(id, "visualization", file_id, name)
        @@ [visualization_type |-> visualization_type]

\* A visualization the ingestion may add, with the row that contains it.
Addition(obj, src) ==
    [object |-> obj, relationship |-> Rel(src, obj.id, "contains")]

\* A report nested in a dashboard, an interactive report, a calculated
\* field and a query.
NestedAssessment ==
    [objects |->
        <<Obj("d1", "dashboard", "F1", "Sales"),
          Obj("r1", "report", "F2", "Ops")
              @@ [reportType |-> "interactiveReport"],
          Obj("r2", "report", "F1", "Fin"),
          Viz("v1", "F1", "Sales", "Pie"),
          Viz("v2", "F1", "", "Map"),
          Obj("v3", "Bar", "F2", "Ops"),
          Obj("c1", "calculated_field", "F2", "Ops")
              @@ [expression |-> ExpressionTexts[1]],
          Obj("q1", "query", "F2", "Ops") @@ [source_type |-> "query_ref"]>>,
     relationships |->
        <<Rel("d1", "v1", "contains"), Rel("d1", "r2", "contains"),
          Rel("r2", "v2", "contains"), Rel("r1", "v3", "contains"),
          Rel("r1", "c1", "contains"), Rel("v3", "q1", "uses")>>,
     candidates |->
        {Addition(Viz("v8", "F1", "Ops", "Gauge"), "d1"),
         Addition(Viz("v9", "F2", "Ops", "Map"), "r1"),
         Addition(Viz("v7", "F1", "Fin", "List"), "r2")}]

\* A dashboard whose visualizations are all Low, a page, a plain report
\* and an interactive report without visualizations.  The visualization v6
\* arrives in the dashboard's file with a row whose source is no object.
LowAssessment ==
    [objects |->
        <<Obj("d1", "dashboard", "F1", "Sales"),
          Obj("p1", "page", "F1", "Ops"),
          Viz("v1", "F1", "Sales", "Pie"),
          Viz("v2", "F1", "Ops", "Pie"),
          Obj("r1", "report", "F2", "Ops"),
          Obj("r3", "report", "F3", "Fin")
              @@ [report_type |-> "interactiveReport"],
          Obj("m1", "measure", "F2", "Ops")
              @@ [expression |-> ExpressionTexts[2]]>>,
     relationships |->
        <<Rel("d1", "p1", "contains"), Rel("p1", "v1", "contains"),
          Rel("d1", "v2", "contains"), Rel("r1", "m1", "uses")>>,
     candidates |->
        {Addition(Viz("v9", "F1", "Fin", "Map"), "d1"),
         Addition(Viz("v8", "F1", "Fin", "Gauge"), "p1"),
         Addition(Obj("v7", "Bar", "F2", "Fin"), "r1"),
         Addition(Viz("v6", "F1", "Ops", "Pie"), "x9")}]

\* A visualization held by two dashboards, one held by nothing in a file
\* with a report, and a dashboard without a name.
SharedAssessment ==
    [objects |->
        <<Obj("d1", "dashboard", "F1", "Sales"),
          Obj("d2", "DASHBOARD", "F2", ""),
          Viz("v1", "F1", "Sales", "Gauge"),
          Obj("v2", "visualization", "F3", "Ops") @@ [type |-> "Bar"],
          Obj("r1", "report", "F3", "Ops")
              @@ [cognosClass |-> "reportView"],
          Obj("o1", "prompt", "F3", "Ops")>>,
     relationships |->
        <<Rel("d1", "v1", "contains"), Rel("d2", "v1", "contains"),
          Rel("r1", "o1", "references")>>,
     candidates |->
        {Addition(Viz("v9", "F2", "Fin", "Pie"), "d2"),
         Addition(Viz("v8", "F3", "Fin", "KPI"), "x9")}]

\* No object and no relationship.
EmptyAssessment ==
    [objects |-> <<>>,
     relationships |-> <<>>,
     candidates |->
        {Addition(Viz("v9", "F1", "Fin", "Map"), "x9"),
         Addition(Viz("v8", "F1", "Fin", "Bar"), "v9")}]

EngineAssessments ==
    {NestedAssessment, LowAssessment, SharedAssessment, EmptyAssessment}

(***************************************************************************)
(* Specification of the engine and the reference-table service             *)
(***************************************************************************)
EngineInit ==
    /\ \E a \in EngineAssessments :
          /\ objects = a.objects
          /\ relationships = a.relationships
          /\ candidates = a.candidates
    /\ report = NoReport
    /\ root_cache = <<>>
    /\ resolved = <<>>
    /\ engine = NewReportService
    /\ bigquery \in BigQueryConditions
    /\ runs = <<>>
    /\ CalcIdle
    /\ HierIdle
    /\ WalkIdle

\* The visualization objects of the assessment.
VizObjects(objs) == {i \in DOMAIN objs : _is_visualization_object(objs[i])}

\* The ingestion adds a visualization and the row that contains it; a
\* report generated earlier no longer belongs to the snapshot.
AddVisualization(c) ==
    /\ Cardinality(VizObjects(objects)) < MaxViz
    /\ c.object.id \notin IdsOf(objects)
    /\ objects' = Append(objects, c.object)
    /\ relationships' = Append(relationships, c.relationship)
    /\ report' = NoReport
    /\ UNCHANGED <<candidates, root_cache, resolved>>
    /\ UNCHANGED <<calcVars, engineVars, hierVars, walkVars>>

\* The deployment's BigQuery settings or the service's health change.
SetBigQuery(condition) ==
    /\ bigquery # condition
    /\ bigquery' = condition
    /\ UNCHANGED <<engine, runs>>
    /\ UNCHANGED <<reportVars, calcVars, hierVars, walkVars>>

\* A request builds a new ReportService.
CreateReportService ==
    /\ engine # NewReportService
    /\ engine' = NewReportService
    /\ UNCHANGED <<bigquery, runs>>
    /\ UNCHANGED <<reportVars, calcVars, hierVars, walkVars>>

\* What one call of generate_report_for_assessment leaves behind.
Generation ==
    LET returns(g) ==
            /\ report' = g.report
            /\ engine' = g.engine
    IN  /\ returns(ReportService_generate_report_for_assessment(
                       engine, bigquery, objects, relationships))
        /\ root_cache' = RootCacheAfter(objects, relationships)
        /\ resolved' = ResolvedAfter(objects, relationships)
        /\ UNCHANGED <<objects, candidates, relationships, bigquery>>
        /\ UNCHANGED <<calcVars, hierVars, walkVars>>

\* GET /assessments/{id}/report on the engine instance.
GenerateEngineReport ==
    /\ Generation
    /\ UNCHANGED runs

EngineNext ==
    \/ \E c \in candidates : AddVisualization(c)
    \/ \E condition \in BigQueryConditions : SetBigQuery(condition)
    \/ CreateReportService
    \/ GenerateEngineReport

EngineSpec == EngineInit /\ [][EngineNext]_vars

(***************************************************************************)
(* C19                                                                     *)
(***************************************************************************)
\* The reference-table service cannot serve the lookup.
LookupFails == bigquery \in {"not_configured", "no_client", "query_fails"}

\* Every visualization type of the report is classified "Unknown".
AllVisualizationsUnknown(r) ==
    \A n \in DOMAIN r.visualization_details.items :
        r.visualization_details.items[n].complexity = "Unknown"

\* A generation has just ended, with a report or with an exception.
GenerationEnded == report' # report /\ report' # NoReport

\* C19: a failure of the reference-table lookup never propagates: when the
\* engine has to load the table and the service is not configured, its
\* client cannot be created or the query fails, the lookup yields an empty
\* table, the generation completes and every visualization is classified
\* "Unknown".
C19_LookupFailureNeverPropagates ==
    [][(LookupFails /\ ~engine._feature_list_cache.loaded /\ GenerationEnded)
          => /\ report'.generated
             /\ engine'._feature_list_cache = [loaded |-> TRUE, rows |-> <<>>]
             /\ AllVisualizationsUnknown(report')]_vars

(***************************************************************************)
(* C11                                                                     *)
(***************************************************************************)
\* The ids of the visualization objects of the assessment.
VisualizationIds ==
    {o \in ObjectIds : _is_visualization_object(id_to_obj(objects, o))}

\* The level the report gives a visualization: the lower-cased complexity
\* of the entry of its type in visualization_details.
ReportedLevel(v) ==
    LET items == report.visualization_details.items
        t == _get_visualization_type_for_object(id_to_obj(objects, v))
        n == CHOOSE k \in DOMAIN items : items[k].visualization = t
    IN  Lower(Strip(items[n].complexity))

\* The worst of a set of levels, "Unknown" when it holds no level.
WorstLevel(levels) ==
    IF "critical" \in levels THEN "Critical"
    ELSE IF "high" \in levels THEN "High"
    ELSE IF "medium" \in levels THEN "Medium"
    ELSE IF "low" \in levels THEN "Low"
    ELSE "Unknown"

LevelRank(complexity) ==
    CASE complexity = "Critical" -> 4
      [] complexity = "High" -> 3
      [] complexity = "Medium" -> 2
      [] complexity = "Low" -> 1
      [] OTHER -> 0

\* The visualizations whose containment root is the dashboard d: d is the
\* first dashboard/report on their chain of containment parents.
OwnedVisualizations(d) ==
    {v \in VisualizationIds : FirstRootOnChain(v) = <<d, "dashboard">>}

\* The objects d reaches over containment rows between known objects.
ContainedOverRows(d) ==
    LET n == Cardinality(ObjectIds)
        step(S) ==
            S \cup {relationships[k].target_object_id : k \in
                      {j \in DOMAIN relationships :
                          /\ _normalize_rel_type(
                                 relationships[j].relationship_type)
                                 \in CONTAINMENT_REL_TYPES
                          /\ relationships[j].source_object_id \in S
                          /\ relationships[j].target_object_id
                                 \in ObjectIds}}
        R[k \in 0..n] ==
            IF k = 0 THEN {d}
            ELSE LET prev == R[k - 1] IN step(prev)
    IN  R[n] \ {d}

\* The complexity the dashboards breakdown derives for dashboard d on the
\* given lists with the given feature list.
DashboardComplexity(objs, rels, feature_rows, d) ==
    LET items == _get_dashboards_breakdown(
                     objs, build_containment_tree(objs, rels),
                     feature_rows).items
        n == CHOOSE k \in DOMAIN items : items[k].dashboard_id = d
    IN  items[n]

\* The feature lists an engine can hold.
FeatureLists == {<<>>, ReferenceTables(FEATURE_LIST_QUERY)}

\* A step that adds a visualization lowers no dashboard's complexity, and
\* a Critical visualization that becomes part of a dashboard whose
\* visualizations were all Low makes it Critical.
AddingNeverLowers ==
    (objects' # objects) =>
        \A feature_rows \in FeatureLists :
            \A d \in {o \in ObjectIds : TypeOf(o) = "dashboard"} :
                LET before == DashboardComplexity(objects, relationships,
                                                  feature_rows, d)
                    after == DashboardComplexity(objects', relationships',
                                                 feature_rows, d)
                    added == objects'[Len(objects')]
                    lookup == _get_visualization_complexity_lookup(
                                  feature_rows)
                IN  /\ LevelRank(after.complexity)
                           >= LevelRank(before.complexity)
                    /\ (/\ before.complexity = "Low"
                        /\ before.visualizations_by_complexity["low"]
                               = before.total_visualizations
                        /\ _is_visualization_object(added)
                        /\ VizLevel(lookup, added) = "critical"
                        /\ after.total_visualizations
                               = before.total_visualizations + 1)
                           => after.complexity = "Critical"

InteractiveReportEntries ==
    {n \in DOMAIN report.reports_breakdown.items :
        _get_report_type(id_to_obj(objects,
            report.reports_breakdown.items[n].report_id))
                = "interactiveReport"}

AllLevelsZero(by_complexity) == \A l \in LevelSet : by_complexity[l] = 0

\* C12: a report whose report type is "interactiveReport" has complexity
\* Critical whatever visualizations it contains; with zero visualizations
\* it is Critical while visualizations_by_complexity is zero at every
\* level.
C12_InteractiveReportIsCritical ==
    report.generated =>
        \A n \in InteractiveReportEntries :
            LET e == report.reports_breakdown.items[n]
            IN  /\ e.complexity = "Critical"
                /\ e.total_visualizations = 0
                       => AllLevelsZero(e.visualizations_by_complexity)

\* Witness: one generated report with an interactive report without any
\* visualization, and one with an interactive report whose visualizations
\* are known and none of them Critical.
C12_Witness ==
    /\ report.generated
    /\ \E n \in InteractiveReportEntries :
          LET e == report.reports_breakdown.items[n]
          IN  \/ /\ e.total_visualizations = 0
                 /\ e.complexity = "Critical"
                 /\ AllLevelsZero(e.visualizations_by_complexity)
                 /\ bigquery = "not_configured"
              \/ /\ e.total_visualizations > 0
                 /\ e.visualizations_by_complexity["critical"] = 0
                 /\ e.visualizations_by_complexity["medium"] > 0
                 /\ e.complexity = "Critical"

(***************************************************************************)
(* C15                                                                     *)
(***************************************************************************)
\* The level of the n-th entry of the challenges list.
ChallengeLevel(n) ==
    Lower(Strip(report.challenges.visualization[n].complexity))

\* C15: the challenges list holds exactly the visualizations whose
\* complexity is Medium, High or Critical, each once; Low and Unknown
\* ones are left out; every Critical entry comes before every High entry
\* and every High entry before every Medium entry.
C15_ChallengesAreMediumAndWorse ==
    report.generated =>
        LET list == report.challenges.visualization
        IN  /\ {list[n].id : n \in DOMAIN list}
                  = {v \in VisualizationIds :
                        ReportedLevel(v) \in {"medium", "high", "critical"}}
            /\ \A i, j \in DOMAIN list : i # j => list[i].id # list[j].id
            /\ \A n \in DOMAIN list :
                  ChallengeLevel(n) \in {"medium", "high", "critical"}
            /\ \A i, j \in DOMAIN list :
                  i < j => LevelRank(Capitalize(ChallengeLevel(i)))
                               >= LevelRank(Capitalize(ChallengeLevel(j)))

\* Witness: a challenges list with a Critical, a High and a Medium entry,
\* of an assessment that also has a Low or Unknown visualization, where
\* the Critical visualization is not the first visualization of the
\* object list.
C15_Witness ==
    /\ report.generated
    /\ LET list == report.challenges.visualization
       IN  /\ {ChallengeLevel(n) : n \in DOMAIN list}
                  = {"medium", "high", "critical"}
           /\ Len(list) < Cardinality(VisualizationIds)
           /\ \E i, j \in DOMAIN objects :
                 /\ i < j
                 /\ objects[i].id \in VisualizationIds
                 /\ objects[j].id = list[1].id

(***************************************************************************)
(* C16                                                                     *)
(***************************************************************************)
\* The entry of a level in a category's row of the complexity matrix.
MatrixEntry(entity_name, level) ==
    LET items == report.complex_analysis[entity_name]
    IN  items[CHOOSE i \in DOMAIN items : items[i].complexity = level]

\* The count of a matrix entry: the containing count for the dashboard
\* and report categories, the category's own count otherwise.
MatrixCount(entity_name, level) ==
    IF entity_name \in {"dashboard", "report"}
    THEN MatrixEntry(entity_name, level).containing_count
    ELSE MatrixEntry(entity_name, level).count

CategoryTotal(entity_name) ==
    MatrixCount(entity_name, "low") + MatrixCount(entity_name, "medium")
        + MatrixCount(entity_name, "high")
        + MatrixCount(entity_name, "critical")

\* The first level with a nonzero count in the order Critical, High,
\* Medium, Low.
FirstNonzeroLevel(entity_name) ==
    IF MatrixCount(entity_name, "critical") # 0 THEN "critical"
    ELSE IF MatrixCount(entity_name, "high") # 0 THEN "high"
    ELSE IF MatrixCount(entity_name, "medium") # 0 THEN "medium"
    ELSE "low"

\* The key findings of a category.
FindingsOf(entity_name) ==
    {n \in DOMAIN report.summary.key_findings :
        report.summary.key_findings[n].feature_area
            = FeatureAreaDisplay(entity_name)}

SectionNames(r) ==
    DOMAIN r \ {"generated", "complex_analysis", "summary", "challenges"}

\* A section of an empty assessment: total 0, no item, and a stats map,
\* where the section has one, that is zero at all four levels.
EmptySection(section) ==
    /\ section.total = 0
    /\ section.items = <<>>
    /\ "stats" \in DOMAIN section => AllLevelsZero(section.stats)

\* C17: for zero objects and zero relationships the generation raises no
\* error and returns a report in which every section has total 0, every
\* stats map is zero at all four levels, and every item list, the key
\* findings and the challenges list are empty.
C17_EmptyInputGivesEmptyReport ==
    [][(objects = <<>> /\ relationships = <<>> /\ GenerationEnded)
          => /\ report'.generated
             /\ \A s \in SectionNames(report') : EmptySection(report'[s])
             /\ report'.summary.key_findings = <<>>
             /\ report'.challenges.visualization = <<>>]_vars

(***************************************************************************)
(* Several generations, on one or several engine instances                 *)
(***************************************************************************)
\* The assessments a generation can be asked for.  They share object ids
\* (d1, r1, v1, v2) whose containment differs from one to the other.
RunAssessments == {NestedAssessment, LowAssessment, SharedAssessment}

\* The reference-table service stays as it is during a behaviour: what it
\* answers is an input of the generations compared.
RunsInit ==
    /\ \E a \in RunAssessments :
          /\ objects = a.objects
          /\ relationships = a.relationships
          /\ candidates = a.candidates
    /\ report = NoReport
    /\ root_cache = <<>>
    /\ resolved = <<>>
    /\ engine = NewReportService
    /\ bigquery \in BigQueryConditions
    /\ runs = <<>>
    /\ CalcIdle
    /\ HierIdle
    /\ WalkIdle

\* The next request is for assessment a: its rows are loaded.  The tree of
\* the previous generation, and its _root_cache, are still in memory.
OpenAssessment(a) ==
    /\ <<a.objects, a.relationships>> # <<objects, relationships>>
    /\ objects' = a.objects
    /\ relationships' = a.relationships
    /\ candidates' = a.candidates
    /\ report' = NoReport
    /\ UNCHANGED <<root_cache, resolved, engineVars, calcVars, hierVars, walkVars>>

\* A request is served by a new ReportService.
NewInstance ==
    /\ engine # NewReportService
    /\ engine' = NewReportService
    /\ UNCHANGED <<reportVars, bigquery, runs, calcVars, hierVars, walkVars>>

\* generate_report_for_assessment; the lists it was given and what it
\* returned are kept, with whether the instance had served a generation
\* before.
GenerateAndRecord ==
    /\ Len(runs) < MaxRuns
    /\ Generation
    /\ runs' = Append(runs,
                  [objects |-> objects,
                   relationships |-> relationships,
                   reused |-> engine._feature_list_cache.loaded,
                   report |-> report'])

RunsNext ==
    \/ \E a \in RunAssessments : OpenAssessment(a)
    \/ NewInstance
    \/ GenerateAndRecord

RunsSpec == RunsInit /\ [][RunsNext]_vars

(***************************************************************************)
(* C18                                                                     *)
(***************************************************************************)
\* The root of every object by the walk over the parents of the current
\* assessment, without any cache.
RootsOfCurrentAssessment ==
    LET tree == build_containment_tree(objects, relationships)
    IN  [o \in IdsOf(objects) |->
            GetRootWalk(objects,
                        [contains_parent |-> tree.contains_parent,
                         contains_children |-> tree.contains_children],
                        o, {})]

HierarchyReturned == hierarchy.built /\ ~hierarchy.raised

\* The (node, child) pairs of the children lists of the built nodes.
ChildEdges ==
    UNION {{<<n, hierarchy.nodes[n].children[k]>> :
                k \in DOMAIN hierarchy.nodes[n].children} :
           n \in DOMAIN hierarchy.nodes}

\* The nodes below n in the built tree, over the children lists.
DescendantsInTree(n) ==
    ReachableOver(ChildEdges, Range(hierarchy.nodes[n].children)) \ {n}

\* C21: after build_hierarchy returns, every node's child_count is the
\* number of its children in the built tree and its descendant_count is the
\* number of nodes below it.
C21_MetricsMatchTree ==
    HierarchyReturned =>
        \A n \in DOMAIN hierarchy.nodes :
            /\ hierarchy.nodes[n].child_count =
                   Len(hierarchy.nodes[n].children)
            /\ hierarchy.nodes[n].descendant_count =
                   Cardinality(DescendantsInTree(n))

(***************************************************************************)
(* C25: the nodes get_root_nodes returns.                                  *)
(***************************************************************************)
\* HierarchyService.get_root_nodes: the nodes without a parent, in the order
\* of self.nodes.
get_root_nodes(objs, nodes) ==
    SelectSeq([k \in DOMAIN objs |-> objs[k].id],
              LAMBDA n : nodes[n].parent = None)

\* C25: after build_hierarchy returns, get_root_nodes() returns exactly the
\* nodes identified as roots (every folder object and every object without
\* an incoming hierarchy edge), each at depth 0.
C25_RootNodesAreIdentifiedRoots ==
    HierarchyReturned =>
        /\ Range(get_root_nodes(hier_objects, hierarchy.nodes)) =
               Range(hierarchy.root_nodes)
        /\ \A n \in Range(hierarchy.root_nodes) :
               hierarchy.nodes[n].depth = 0

(***************************************************************************)
(* C24: the relationships _detect_and_break_cycles returns.                *)
(***************************************************************************)
\* The (source, target) pairs of the hierarchy relationships that
\* _detect_and_break_cycles returned.
FilteredEdges ==
    {<<hierarchy.filtered[k].source_object_id,
       hierarchy.filtered[k].target_object_id>> :
        k \in {i \in DOMAIN hierarchy.filtered :
                  IsHierarchyRel(hierarchy.filtered[i])}}

\* C24: the relationships _detect_and_break_cycles returns contain no
\* directed cycle among the hierarchy relationship types.
C24_FilteredIsAcyclic ==
    HierarchyReturned =>
        \A e \in FilteredEdges : ~OnCycle(FilteredEdges, e[1])

(***************************************************************************)
(* C30: the consistency of the built tree.                                 *)
(***************************************************************************)
\* The children list of n, where n is a built node or the virtual root.
ChildrenListOf(n) ==
    IF n = VirtualRoot THEN hierarchy.virtual_root_children
    ELSE hierarchy.nodes[n].children

\* The depth of n, where n is a built node or the virtual root (depth -1).
DepthOf(n) == IF n = VirtualRoot THEN -1 ELSE hierarchy.nodes[n].depth

\* The number of places of the children list of p that hold c.
OccurrencesIn(p, c) ==
    Cardinality({k \in DOMAIN ChildrenListOf(p) : ChildrenListOf(p)[k] = c})

\* C30: after build_hierarchy returns, every node has one parent, a built
\* node or the virtual root; c is in the children list of n exactly when the
\* parent of c is n, and once; and the depth of every node is the depth of
\* its parent plus one.
C30_TreeIsConsistent ==
    HierarchyReturned =>
        \A c \in DOMAIN hierarchy.nodes :
            /\ hierarchy.nodes[c].parent \in
                   DOMAIN hierarchy.nodes \cup {VirtualRoot}
            /\ \A p \in DOMAIN hierarchy.nodes \cup {VirtualRoot} :
                   OccurrencesIn(p, c) =
                       IF hierarchy.nodes[c].parent = p THEN 1 ELSE 0
            /\ hierarchy.nodes[c].depth =
                   DepthOf(hierarchy.nodes[c].parent) + 1

\* The same on the inputs whose hierarchy relationships hold no cycle.
TreeIsConsistentWithoutCycles == InputHasCycle \/ C30_TreeIsConsistent

(***************************************************************************)
(* C29: the two maps of the containment tree.                              *)
(***************************************************************************)
\* The tree generate_report_for_assessment builds for the snapshot.
SnapshotTree == build_containment_tree(objects, relationships)

\* The number of places of contains_children[p] that hold c.
ContainsOccurrences(p, c) ==
    Cardinality({k \in DOMAIN ChildrenOf(SnapshotTree, p) :
                    ChildrenOf(SnapshotTree, p)[k] = c})

\* C29: in the containment tree of a generated report, c occurs in
\* contains_children[p] exactly when contains_parent[c] is p, and once.
C29_ParentAndChildrenAgree ==
    report.generated =>
        \A p \in IdsOf(objects) : \A c \in IdsOf(objects) :
            ContainsOccurrences(p, c) =
                IF ParentOf(SnapshotTree, c) = p THEN 1 ELSE 0

(***************************************************************************)
(* C27: containing counts against the numbers of dashboards and reports.   *)
(***************************************************************************)
\* The sections of a report that hold a by_complexity map.
SectionsByComplexity(r) ==
    {s \in SectionNames(r) : "by_complexity" \in DOMAIN r[s]}

\* C27: in every category breakdown and for every level,
\* dashboards_containing_count is at most total_dashboards and
\* reports_containing_count is at most total_reports.
C27_ContainingCountsWithinTotals ==
    report.generated =>
        \A s \in SectionsByComplexity(report) : \A l \in LevelSet :
            /\ report[s].by_complexity[l].dashboards_containing_count
                   <= report.dashboards_breakdown.total
            /\ report[s].by_complexity[l].reports_containing_count
                   <= report.reports_breakdown.total

(***************************************************************************)
(* C28: the stats map of a section against the section's total.            *)
(***************************************************************************)
\* The sum of the four per-level counts of a stats map.
StatsSum(stats) ==
    stats["low"] + stats["medium"] + stats["high"] + stats["critical"]

\* The sections of a report that hold a stats map.
SectionsWithStats(r) == {s \in SectionNames(r) : "stats" \in DOMAIN r[s]}

\* What an item adds to its section's total: the visualizations of its type
\* in visualization_details, one elsewhere.
UnitsOf(s, item) == IF s = "visualization_details" THEN item.count ELSE 1

\* The item's complexity is one of the four levels.
IsClassified(item) == Lower(Strip(item.complexity)) \in LevelSet

\* The units of the items of the section from place i on whose complexity
\* is one of the four levels.
RECURSIVE ClassifiedUnits(_, _, _)
ClassifiedUnits(s, items, i) ==
    IF i > Len(items) THEN 0
    ELSE (IF IsClassified(items[i]) THEN UnitsOf(s, items[i]) ELSE 0)
            + ClassifiedUnits(s, items, i + 1)

\* C28 as stated: in every section of a generated report that holds a
\* stats map, the four per-level counts add up to the section's total.
C28_Original_StatsSumToTotal ==
    report.generated =>
        \A s \in SectionsWithStats(report) :
            StatsSum(report[s].stats) = report[s].total

\* C28: in every section of a generated report that holds a stats map, the
\* four per-level counts add up to the number of listed items whose
\* complexity is one of the four levels (in visualization_details: to the
\* number of visualizations of such types).  The sum never exceeds the
\* section's total; it equals the total when no item is "Unknown", and in
\* a section that merges re-extracted objects it equals the number of
\* merged items.
C28_StatsCountClassifiedItems ==
    report.generated =>
        \A s \in SectionsWithStats(report) :
            /\ StatsSum(report[s].stats) =
                   ClassifiedUnits(s, report[s].items, 1)
            /\ StatsSum(report[s].stats) <= report[s].total
            /\ IF "total_unique" \in DOMAIN report[s]
               THEN StatsSum(report[s].stats) = report[s].total_unique
               ELSE (\A i \in DOMAIN report[s].items :
                        IsClassified(report[s].items[i]))
                       => StatsSum(report[s].stats) = report[s].total

\* Witness: a section holds items of a level beside "Unknown" items, and a
\* section with several items holds none that is "Unknown".
C28_Witness ==
    /\ report.generated
    /\ \E s \in SectionsWithStats(report) :
          /\ 0 < StatsSum(report[s].stats)
          /\ StatsSum(report[s].stats) < report[s].total
    /\ \E s \in SectionsWithStats(report) :
          /\ report[s].total > 1
          /\ StatsSum(report[s].stats) = report[s].total

(***************************************************************************)
(* C23: the queries one engine instance sends for a reference table.       *)
(***************************************************************************)
\* The cache of the instance that holds the rows of the query.
CacheOf(eng, query) ==
    IF query = FEATURE_LIST_QUERY THEN eng._feature_list_cache
    ELSE eng._complex_analysis_feature_cache

\* C23: across the generations on one engine instance each reference table
\* is queried at most once, and a cache that is loaded, with rows or empty,
\* is what every later generation on the instance works with: the
\* generation sends no query for it and leaves it as it is.
C23_TableQueriedAtMostOnce ==
    /\ [](\A q \in ReferenceQueries : engine.queries[q] <= 1)
    /\ [][\A q \in ReferenceQueries :
             (CacheOf(engine, q).loaded /\ engine' # NewReportService)
                 => /\ CacheOf(engine', q) = CacheOf(engine, q)
                    /\ engine'.queries[q] = engine.queries[q]]_vars

\* Witness: the second generation on an instance whose first query failed
\* or returned no rows: the table was queried once and the empty list is
\* in the cache.
C23_Witness ==
    /\ Len(runs) >= 2
    /\ runs[Len(runs)].reused
    /\ bigquery \in {"query_fails", "no_rows"}
    /\ engine.queries[FEATURE_LIST_QUERY] = 1
    /\ engine._feature_list_cache = [loaded |-> TRUE, rows |-> <<>>]
    /\ report.generated

(***************************************************************************)
(* The traversals of the relationship data, one loop iteration at a time   *)
(***************************************************************************)
\* The upward walks: while current and current not in visited.
UpwardWalks == {"get_root", "_get_package_root", "_get_parent_module_id"}

\* The searches that mark a node when they take it from the queue.
MarkOnPop == {"_bfs_reach_objects_of_type", "bfs_reach_nodes"}

\* The searches that mark a node when they put it on the queue.
MarkOnEnqueue == {"get_descendants", "_resolve_containment_root"}

\* _build_parent_map: parent_map[tgt] = src over the containment and
\* has_column rows between objects, a later row overwriting an earlier one
\* (the objects of the model carry no parent_id property).
RECURSIVE ParentMapFrom(_, _, _, _)
ParentMapFrom(objs, rels, i, parent_map) ==
    IF i > Len(rels) THEN parent_map
    ELSE LET rt  == _normalize_rel_type(rels[i].relationship_type)
             src == rels[i].source_object_id
             tgt == rels[i].target_object_id
         IN  IF (rt \in CONTAINMENT_REL_TYPES \/ rt = HAS_COLUMN_REL_TYPE)
                 /\ src \in IdsOf(objs) /\ tgt \in IdsOf(objs)
             THEN ParentMapFrom(objs, rels, i + 1,
                                [parent_map EXCEPT ![tgt] = src])
             ELSE ParentMapFrom(objs, rels, i + 1, parent_map)

_build_parent_map(objs, rels) ==
    ParentMapFrom(objs, rels, 1, [o \in IdsOf(objs) |-> None])

\* The normalized type of the object with the id, "" when there is none.
TypeAt(objs, n) ==
    IF n \in IdsOf(objs)
    THEN _normalize_object_type(id_to_obj(objs, n).object_type) ELSE ""

\* The types at which an upward walk returns.
StopTypes(kind) ==
    IF kind = "get_root" THEN ROOT_OBJECT_TYPES
    ELSE IF kind = "_get_package_root" THEN {"package"}
    ELSE {"data_module"}

\* contains_parent.get(current) / parent_map.get(current)
ParentIn(kind, objs, rels, tree, n) ==
    IF kind = "_get_parent_module_id"
    THEN IF n \in IdsOf(objs) THEN _build_parent_map(objs, rels)[n] ELSE None
    ELSE ParentOf(tree, n)

\* The nodes a search goes to from n, in the order of the code.
Neighbours(kind, objs, rels, tree, n) ==
    IF kind = "_resolve_containment_root"
    THEN relationships_by_target(rels, n)
    ELSE IF n \notin IdsOf(objs) THEN <<>>
    ELSE IF kind = "get_descendants" THEN ChildrenOf(tree, n)
    ELSE IF kind = "bfs_reach_nodes" THEN PackageAdj(objs, tree)[n]
    ELSE UsageAdj(objs, tree, rels)[n]

\* No traversal has been started: tree is the containment tree the service
\* built before it calls a traversal.
NotWalking ==
    [kind |-> None, running |-> FALSE, start |-> None, current |-> None,
     tree |-> build_containment_tree(<<>>, <<>>),
     visited |-> {}, queue |-> <<>>, seen |-> {}, result |-> None,
     visits |-> {}, revisited |-> {}]

\* The body of the loop runs for node n: visits holds the nodes the loop
\* has run for, revisited those it has run for more than once.
Visit(w, n) ==
    [w EXCEPT !.revisited = IF n \in w.visits THEN @ \cup {n} ELSE @,
              !.visits = @ \cup {n}]

\* Variant of the loop condition of the upward walks without the visited
\* set: while current.
WhileWalking_Current(w) == w.current # None

\* while current and current not in visited
WhileWalking(w) == w.current # None /\ w.current \notin w.visited

\* Traversal inputs: a dashboard, a package, a data module and a filter;
\* rows that contain a node in itself and close a cycle of containment and
\* a cycle of usage.
WalkAssessment ==
    [objects |->
        <<Obj("d1", "dashboard", "F1", "Sales"),
          Obj("k1", "package", "F2", "Ops"),
          Obj("m1", "data_module", "F2", "Ops"),
          Obj("f1", "filter", "F1", "Sales")>>,
     candidates |->
        {Rel("f1", "f1", "contains"), Rel("m1", "f1", "contains"),
         Rel("f1", "m1", "parent_child"), Rel("m1", "f1", "uses"),
         Rel("f1", "m1", "uses")}]

WalkInit ==
    /\ objects = WalkAssessment.objects
    /\ candidates = WalkAssessment.candidates
    /\ relationships = <<>>
    /\ report = NoReport
    /\ root_cache = <<>>
    /\ resolved = <<>>
    /\ walk = NotWalking
    /\ CalcIdle
    /\ EngineIdle
    /\ HierIdle

\* The ingestion persists one more row while no traversal is under way.
AddWalkRelationship(rel) ==
    /\ walk = NotWalking
    /\ Len(relationships) < MaxRels
    /\ rel \notin Range(relationships)
    /\ relationships' = Append(relationships, rel)
    /\ walk' = NotWalking
    /\ UNCHANGED <<objects, candidates, report, root_cache, resolved>>
    /\ UNCHANGED <<calcVars, engineVars, hierVars>>

\* An upward walk is called for the object id.
StartWalk(kind, oid) ==
    /\ walk = NotWalking
    /\ walk' = [NotWalking EXCEPT
                    !.kind = kind, !.running = TRUE,
                    !.start = oid, !.current = oid,
                    !.tree = build_containment_tree(objects, relationships)]
    /\ UNCHANGED <<reportVars, calcVars, engineVars, hierVars>>

\* A search is called: get_descendants starts with the root marked and
\* queued, the search of _resolve_containment_root with the object marked
\* and its sources queued, the others with the root queued.
StartSearch(kind, oid) ==
    /\ walk = NotWalking
    /\ kind = "_resolve_containment_root" =>
           get_root(objects,
                    build_containment_tree(objects, relationships),
                    oid)[1] = None
    /\ walk' =
          IF kind = "_resolve_containment_root"
          THEN LET first == EnqueueUnseen(
                                relationships_by_target(relationships, oid),
                                <<>>, {oid})
               IN  [NotWalking EXCEPT
                       !.kind = kind, !.running = TRUE, !.start = oid,
                       !.tree = build_containment_tree(objects,
                                                       relationships),
                       !.queue = first.queue, !.seen = first.seen]
          ELSE [NotWalking EXCEPT
                   !.kind = kind, !.running = TRUE, !.start = oid,
                   !.tree = build_containment_tree(objects, relationships),
                   !.queue = <<oid>>,
                   !.seen = IF kind = "get_descendants" THEN {oid} ELSE {}]
    /\ UNCHANGED <<reportVars, calcVars, engineVars, hierVars>>

\* One test of the loop condition of an upward walk and, if it holds, one
\* run of the body.
WalkStep ==
    /\ walk.running
    /\ walk.kind \in UpwardWalks
    /\ walk' =
          IF ~WhileWalking(walk)
          THEN [walk EXCEPT !.running = FALSE]
          ELSE LET w == Visit([walk EXCEPT !.visited = @ \cup {walk.current}],
                              walk.current)
               IN  IF TypeAt(objects, walk.current) \in StopTypes(walk.kind)
                   THEN [w EXCEPT !.running = FALSE,
                                  !.result = walk.current]
                   ELSE [w EXCEPT !.current =
                            ParentIn(walk.kind, objects, relationships,
                                     walk.tree, walk.current)]
    /\ UNCHANGED <<reportVars, calcVars, engineVars, hierVars>>

\* while queue: node = queue.pop(0); if node in seen: continue;
\* seen.add(node); queue the neighbours not in seen.
PopStep ==
    /\ walk.running
    /\ walk.kind \in MarkOnPop
    /\ walk' =
          IF walk.queue = <<>> THEN [walk EXCEPT !.running = FALSE]
          ELSE IF Head(walk.queue) \in walk.seen
          THEN [walk EXCEPT !.queue = Tail(@)]
          ELSE LET node == Head(walk.queue)
                   w == Visit([walk EXCEPT !.seen = @ \cup {node}], node)
               IN  [w EXCEPT !.queue = Tail(@) \o
                        SelectSeq(Neighbours(walk.kind, objects,
                                             relationships, walk.tree,
                                             node),
                                  LAMBDA c : c \notin w.seen)]
    /\ UNCHANGED <<reportVars, calcVars, engineVars, hierVars>>

\* while queue: node = queue.pop(0); (return at a node with a root;) mark
\* and queue the neighbours not marked yet.
EnqueueStep ==
    /\ walk.running
    /\ walk.kind \in MarkOnEnqueue
    /\ walk' =
          IF walk.queue = <<>> THEN [walk EXCEPT !.running = FALSE]
          ELSE LET node == Head(walk.queue)
                   w == Visit(walk, node)
                   r == get_root(objects, walk.tree, node)
                   nxt == EnqueueUnseen(
                              Neighbours(walk.kind, objects, relationships,
                                         walk.tree, node),
                              Tail(walk.queue), walk.seen)
               IN  IF walk.kind = "_resolve_containment_root"
                      /\ r[2] \in ROOT_OBJECT_TYPES /\ r[1] # None
                   THEN [w EXCEPT !.running = FALSE, !.result = r[1]]
                   ELSE [w EXCEPT !.queue = nxt.queue, !.seen = nxt.seen]
    /\ UNCHANGED <<reportVars, calcVars, engineVars, hierVars>>

\* The traversal has returned and its caller goes on.
EndTraversal ==
    /\ ~walk.running
    /\ walk # NotWalking
    /\ walk' = NotWalking
    /\ UNCHANGED <<reportVars, calcVars, engineVars, hierVars>>

WalkNext ==
    \/ \E rel \in candidates : AddWalkRelationship(rel)
    \/ EndTraversal
    \/ \E kind \in UpwardWalks : \E oid \in IdsOf(objects) :
          StartWalk(kind, oid)
    \/ \E kind \in MarkOnPop \cup MarkOnEnqueue :
          \E oid \in IdsOf(objects) : StartSearch(kind, oid)
    \/ WalkStep
    \/ PopStep
    \/ EnqueueStep

\* The next iteration of the loop that has been entered.
LoopStep == WalkStep \/ PopStep \/ EnqueueStep

\* A loop that has been entered runs its next iteration.
WalkSpec == WalkInit /\ [][WalkNext]_vars /\ WF_vars(LoopStep)

(***************************************************************************)
(* C22                                                                     *)
(***************************************************************************)
\* What the loop-by-loop traversal returned is what the traversal returns
\* where the report is computed.
WalkAgrees ==
    ~walk.running =>
        LET tree == build_containment_tree(objects, relationships)
        IN  /\ walk.kind = "get_root" =>
                   walk.result = get_root(objects, tree, walk.start)[1]
            /\ walk.kind = "_get_package_root" =>
                   walk.result = _get_package_root(objects, tree, walk.start)
            /\ walk.kind = "_resolve_containment_root" =>
                   walk.result =
                       ResolveBfs(objects, tree, relationships,
                           EnqueueUnseen(relationships_by_target(
                               relationships, walk.start), <<>>,
                               {walk.start}).queue,
                           EnqueueUnseen(relationships_by_target(
                               relationships, walk.start), <<>>,
                               {walk.start}).seen)[1]
            /\ walk.kind = "_bfs_reach_objects_of_type" =>
                   walk.seen = BfsSeen(UsageAdj(objects, tree, relationships),
                                       <<walk.start>>, {})
            /\ walk.kind = "bfs_reach_nodes" =>
                   walk.seen = BfsSeen(PackageAdj(objects, tree),
                                       <<walk.start>>, {})

\* C22: every traversal terminates on any relationship data, cycles of
\* containment, cycles of usage and self-loops included: a walk or search
\* that has been started ends, and its loop body runs at most once for any
\* node.
C22_TraversalsTerminate ==
    /\ [](walk.revisited = {})
    /\ walk.running ~> ~walk.running

\* Witness: a traversal has ended on rows that hold a cycle through the
\* node it started from, after its loop ran for more than one node.
C22_Witness ==
    /\ walk.kind # None
    /\ ~walk.running
    /\ Cardinality(walk.visits) > 1
    /\ OnCycle({<<relationships[k].source_object_id,
                  relationships[k].target_object_id>> :
                    k \in DOMAIN relationships}, walk.start)

(***************************************************************************)
(* C26                                                                     *)
(***************************************************************************)
\* The report roots whose bfs_reach_modules search marked a data module of
\* the i-th deduplicated group: the set reports_using_count is the size of.
ReportsUsingModule(i) ==
    UNION {RootsReaching(UsageAdj(objects, TreeNow, relationships),
               _collect_dashboard_report_roots(objects,
                                               TreeNow).report_roots, m) :
           m \in _dedupe_by_store_id_or_name(
                     SelectSeq(objects, LAMBDA o :
                         _normalize_object_type(o.object_type)
                             = "data_module"))[i].members}

\* C26: the appendix and the data-modules breakdown agree on usage: for
\* every report R and data module M, M's name is listed under R in the
\* appendix exactly when R is counted in M's reports_using_count.
C26_AppendixAgreesWithModules ==
    report.generated =>
        \A i \in DOMAIN report.data_modules_breakdown.items :
            /\ report.data_modules_breakdown.items[i].reports_using_count
                   = Cardinality(ReportsUsingModule(i))
            /\ \A R \in DOMAIN report.appendix.reports :
                   (report.data_modules_breakdown.items[i].name
                        \in report.appendix.reports[R].data_module)
                   <=> R \in ReportsUsingModule(i)

\* The same for assessments in which every data module has a distinct
\* name and no storeID, so that every module has an entry of its own.
AppendixAgreesOnDistinctModules ==
    (\A i \in DOMAIN objects :
        _normalize_object_type(objects[i].object_type) = "data_module"
            => /\ objects[i].storeID = None
               /\ \A j \in DOMAIN objects :
                     (j # i /\ _normalize_object_type(objects[j].object_type)
                                  = "data_module")
                     => objects[j].name # objects[i].name)
    => C26_AppendixAgreesWithModules

====
